---- MODULE Spec2Model ----
(***************************************************************************)
(* whoopskill: the token lifecycle (auth/tokens.ts, auth/oauth.ts) and the *)
(* authenticated, paginated API client (api/client.ts) as a state machine. *)
(*                                                                         *)
(* A task is one asynchronous caller: a per-type fetcher that fetchData    *)
(* starts with Promise.all, or a CLI invocation (auth status, auth logout, *)
(* access revoke).  Code between two awaits runs as one step; a pending    *)
(* network call is a position of the task (pc).  Time is in seconds, as    *)
(* Math.floor(Date.now() / 1000).                                          *)
(***************************************************************************)
EXTENDS Integers, Sequences, FiniteSets, TLC

\* ---------------------------------------------------------------- bounds
MaxTicks == 1      \* clock advances per behaviour
MaxIssued == 2     \* token pairs the authorization server issues
MaxPages == 2      \* pages of a collection on the server
MaxRecords == 3    \* records of a day's collection handed to the formatters
MaxWorkouts == 2   \* workouts of a day handed to the formatters together with the rest
MaxSeries == 5     \* scored observations of a metric in a trend window
MaxHistory == 3    \* days of recovery history handed to the insights

\* -------------------------------------------------------------- constants
Tasks == {1, 2}
TickSteps == {60}
\* expires_at of the credential found in the store at start (now = 0)
InitExpiries == {30, 60, 61, 120}
\* expires_in values the authorization server answers with
ExpiresIns == {30, 3600}
Scopes == {"read:profile offline"}
RefreshFailStatuses == {400}
ResponseStatuses == {200, 204, 401, 404, 429, 500}
\* the collection endpoint each task's fetcher reads (fetchers[type])
EndpointOf == [t \in Tasks |-> IF t = 1 THEN "sleep" ELSE "recovery"]
\* what one page of a collection can hold (record ids, server order)
PageContents == {<<>>, <<"a">>, <<"b", "a">>}

\* ExitCode (utils/errors.js), as numbered in the README's exit code table
ExitCode == [GENERAL_ERROR |-> 1, AUTH_ERROR |-> 2, RATE_LIMIT |-> 3]

Null == [kind |-> "null"]            \* null / undefined
NoStatus == 0                        \* the status of a WhoopError built without one

WhoopError(message, code, status) ==
  [kind |-> "error", message |-> message, code |-> code, status |-> status]

\* ------------------------------------------------------ the token file
\* ~/.whoop-cli/tokens.json: absent, or a file holding some text
AbsentFile == [kind |-> "absent"]
EmptyFile == [kind |-> "text", text |-> ""]
GarbageFile == [kind |-> "text", text |-> "{garbage"]

\* JSON.stringify(data, null, 2) of a TokenData object
JSON_stringify(data) == [kind |-> "json", data |-> data]

\* JSON.parse(content): the object, or Null when it throws (caught by loadTokens)
JSON_parse(file) == IF file.kind = "json" THEN file.data ELSE Null

existsSync(file) == file.kind # "absent"

\* Faulty variant: expires_at is the response's expires_in, the clock not added
saveTokens_noClock(response, t) ==
  JSON_stringify([access_token |-> response.access_token,
                  refresh_token |-> response.refresh_token,
                  expires_at |-> response.expires_in,
                  token_type |-> response.token_type,
                  scope |-> response.scope])

\* saveTokens(response) at clock t: the file content it writes
saveTokens(response, t) ==
  JSON_stringify([access_token |-> response.access_token,
                  refresh_token |-> response.refresh_token,
                  expires_at |-> t + response.expires_in,
                  token_type |-> response.token_type,
                  scope |-> response.scope])

loadTokens(file) ==
  IF ~existsSync(file) THEN Null ELSE JSON_parse(file)

clearTokens(file) ==
  IF existsSync(file) THEN EmptyFile ELSE file

\* Faulty variant: the margin's boundary second is not treated as expired
isTokenExpired_strict(tokens, t) == t > tokens.expires_at - 60

isTokenExpired(tokens, t) == t >= tokens.expires_at - 60

getTokenStatus(file) ==
  LET tokens == loadTokens(file)
  IN IF tokens = Null
       THEN [authenticated |-> FALSE]
       ELSE [authenticated |-> TRUE, expires_at |-> tokens.expires_at]

\* ------------------------------------------------------ remote servers
\* The token endpoint's 2xx answers to the n-th issue for refresh token rt:
\* a fresh access token, the refresh token rotated or kept.
TokenResponses(n, rt) ==
  { [access_token |-> n, refresh_token |-> r, expires_in |-> e,
     token_type |-> "bearer", scope |-> s] :
      r \in {rt, n}, e \in ExpiresIns, s \in Scopes }

\* All page sequences of 1..MaxPages pages
PageSeqs == UNION { [1..n -> PageContents] : n \in 1..MaxPages }

\* The collection served while two tasks run together
DefaultPages == <<<<"a">>, <<"b", "a">>>>

\* The cursor that continues endpoint e's collection at page k
Cursor(e, k) == [kind |-> "cursor", endpoint |-> e, page |-> k]

VARIABLES
  now,        \* Math.floor(Date.now() / 1000)
  ticks,      \* clock advances so far
  tokenFile,  \* content of TOKEN_FILE
  env,        \* process.env: which of WHOOP_CLIENT_ID / WHOOP_CLIENT_SECRET are set
  issued,     \* token pairs issued by the authorization server
  pages,      \* the collection the resource server serves, page by page
  pc,         \* per task: position in its operation
  op,         \* per task: the operation it runs and its arguments
  tokens,     \* per task: the local `tokens` of getValidTokens / request
  records,    \* per task: fetchCollection's accumulated records
  nextToken,  \* per task: fetchCollection's nextToken
  result,     \* per task: value returned or error thrown by the operation
  gv,         \* per task: what the getValidTokens call of the pending request saw
              \*   (loaded, at) and did (outcome, called: token-exchange call sent)
  sent,       \* per task: the resource request in flight
  nTok,       \* per task: token-exchange calls sent during the operation
  nReq        \* per task: resource requests sent during the operation

VARIABLES
  argv,       \* the CLI invocation: command and parsed options
  cliPc,      \* position of the command's action handler
  fetcherSt,  \* per data type: the state of fetchData's fetcher for it
  output,     \* fetchData's `output` object, per data type
  pagination, \* fetchData's `pagination` object, per data type
  netCalls,   \* network calls the invocation has made
  exit        \* what the invocation printed: Null while it runs

VARIABLES
  whoopData,  \* a WhoopData object handed to the formatters
  rep         \* the representative records picked from it

clientVars == <<now, ticks, tokenFile, env, issued, pages, pc, op, tokens, records,
                nextToken, result, gv, sent, nTok, nReq>>
cliVars == <<argv, cliPc, fetcherSt, output, pagination, netCalls, exit>>
formatVars == <<whoopData, rep>>
\* what the token and client steps leave alone
otherVars == <<cliVars, formatVars>>

vars == <<clientVars, cliVars, formatVars>>

\* No CLI invocation under way
NoCli ==
  /\ argv = Null
  /\ cliPc = "off"
  /\ fetcherSt = Null
  /\ output = Null
  /\ pagination = Null
  /\ netCalls = 0
  /\ exit = Null

\* No formatting under way
NoFormat ==
  /\ whoopData = Null
  /\ rep = Null

\* A TokenData object saved by an earlier login, expiring at x
StoredCredential(x) ==
  [access_token |-> 0, refresh_token |-> 0, expires_at |-> x,
   token_type |-> "Bearer", scope |-> "offline"]

\* The same value for every task
Idle(f) == [t \in Tasks |-> f]

\* The token file is absent, empty, unparsable or holds a credential; the
\* environment has or lacks the client id and secret.  Either two callers run
\* together against one two-page collection, or one caller runs alone against
\* any collection of up to MaxPages pages (the other never starts: "off").
Init ==
  /\ now = 0
  /\ ticks = 0
  /\ tokenFile \in {AbsentFile, EmptyFile, GarbageFile}
                     \cup {JSON_stringify(StoredCredential(x)) : x \in InitExpiries}
  /\ env \in [WHOOP_CLIENT_ID : BOOLEAN, WHOOP_CLIENT_SECRET : BOOLEAN]
  /\ issued = 0
  /\ \/ /\ pages = DefaultPages
        /\ pc = Idle("idle")
     \/ /\ pages \in PageSeqs
        /\ pc = [t \in Tasks |-> IF t = 1 THEN "idle" ELSE "off"]
  /\ op = Idle(Null)
  /\ tokens = Idle(Null)
  /\ records = Idle(<<>>)
  /\ nextToken = Idle(Null)
  /\ result = Idle(Null)
  /\ gv = Idle(Null)
  /\ sent = Idle(Null)
  /\ nTok = Idle(0)
  /\ nReq = Idle(0)
  /\ NoCli
  /\ NoFormat

\* ---------------------------------------------------------------- clock
\* Date.now() advances on its own, between the steps of the tasks.
Tick ==
  /\ ticks < MaxTicks
  /\ \E d \in TickSteps : now' = now + d
  /\ ticks' = ticks + 1
  /\ UNCHANGED <<tokenFile, env, issued, pages, pc, op, tokens, records,
                 nextToken, result, gv, sent, nTok, nReq>>
  /\ UNCHANGED otherVars

\* ------------------------------------------------------- tokens.ts
\* refreshAccessToken(tokens) up to its await: throws when the client id or
\* secret is missing, else sends the token-exchange call and awaits the answer.
refreshAccessToken(tk, environment) ==
  IF ~environment.WHOOP_CLIENT_ID \/ ~environment.WHOOP_CLIENT_SECRET
    THEN [outcome |-> "throw", tokens |-> tk,
          error |-> WhoopError("Missing WHOOP_CLIENT_ID or WHOOP_CLIENT_SECRET",
                               ExitCode.AUTH_ERROR, NoStatus)]
    ELSE [outcome |-> "await", tokens |-> tk]

\* Faulty variant: a missing credential is handed to the refresh instead of throwing
getValidTokens_noNullCheck(file, t, environment) ==
  LET tk == loadTokens(file)
  IN IF tk = Null
       THEN refreshAccessToken(StoredCredential(0), environment)
       ELSE IF isTokenExpired(tk, t)
              THEN refreshAccessToken(tk, environment)
              ELSE [outcome |-> "return", tokens |-> tk]

\* Faulty variant: the expiry test is inverted
getValidTokens_inverted(file, t, environment) ==
  LET tk == loadTokens(file)
  IN IF tk = Null
       THEN [outcome |-> "throw", tokens |-> Null,
             error |-> WhoopError("Not authenticated. Run: whoopskill auth login",
                                  ExitCode.AUTH_ERROR, NoStatus)]
       ELSE IF ~isTokenExpired(tk, t)
              THEN refreshAccessToken(tk, environment)
              ELSE [outcome |-> "return", tokens |-> tk]

\* getValidTokens() at clock t, up to its return, its throw or its await
getValidTokens(file, t, environment) ==
  LET tk == loadTokens(file)
  IN IF tk = Null
       THEN [outcome |-> "throw", tokens |-> Null,
             error |-> WhoopError("Not authenticated. Run: whoopskill auth login",
                                  ExitCode.AUTH_ERROR, NoStatus)]
       ELSE IF isTokenExpired(tk, t)
              THEN refreshAccessToken(tk, environment)
              ELSE [outcome |-> "return", tokens |-> tk]

\* ------------------------------------------------------- api/client.ts
\* request / requestNoContent after `await getValidTokens()`: the fetch is sent
\* with Authorization: Bearer tokens.access_token
fetch(p, o, cursor, tk) ==
  /\ sent' = [sent EXCEPT ![p] =
        [endpoint |-> o.endpoint, nextToken |-> cursor,
         bearer |-> tk.access_token, credential |-> tk, at |-> now]]
  /\ nReq' = [nReq EXCEPT ![p] = @ + 1]
  /\ pc' = [pc EXCEPT ![p] = "awaiting"]

\* Faulty variant: a caller that loaded a credential before goes on with its
\* own copy instead of loading the stored one
request_cached(p, o, cursor) ==
  LET g == IF tokens[p] = Null
             THEN getValidTokens(tokenFile, now, env)
             ELSE getValidTokens(JSON_stringify(tokens[p]), now, env)
  IN /\ tokens' = [tokens EXCEPT ![p] = g.tokens]
     /\ gv' = [gv EXCEPT ![p] = [outcome |-> g.outcome, at |-> now,
                                 loaded |-> g.tokens, called |-> g.outcome = "await",
                                 seq |-> IF @ = Null THEN 1 ELSE @.seq + 1]]
     /\ CASE g.outcome = "throw" ->
               /\ pc' = [pc EXCEPT ![p] = "done"]
               /\ result' = [result EXCEPT ![p] = g.error]
               /\ sent' = [sent EXCEPT ![p] = Null]
               /\ UNCHANGED <<nTok, nReq>>
          [] g.outcome = "await" ->
               /\ pc' = [pc EXCEPT ![p] = "refreshing"]
               /\ nTok' = [nTok EXCEPT ![p] = @ + 1]
               /\ sent' = [sent EXCEPT ![p] = Null]
               /\ UNCHANGED <<result, nReq>>
          [] g.outcome = "return" ->
               /\ fetch(p, o, cursor, g.tokens)
               /\ UNCHANGED <<result, nTok>>

\* request(endpoint, params) / requestNoContent(endpoint) up to the first await
\* that does not resolve at once: the refresh's token-exchange call, or the fetch.
request(p, o, cursor) ==
  LET g == getValidTokens(tokenFile, now, env)
  IN /\ tokens' = [tokens EXCEPT ![p] = g.tokens]
     /\ gv' = [gv EXCEPT ![p] = [outcome |-> g.outcome, at |-> now,
                                 loaded |-> g.tokens, called |-> g.outcome = "await",
                                 seq |-> IF @ = Null THEN 1 ELSE @.seq + 1]]
     /\ CASE g.outcome = "throw" ->
               /\ pc' = [pc EXCEPT ![p] = "done"]
               /\ result' = [result EXCEPT ![p] = g.error]
               /\ sent' = [sent EXCEPT ![p] = Null]
               /\ UNCHANGED <<nTok, nReq>>
          [] g.outcome = "await" ->
               /\ pc' = [pc EXCEPT ![p] = "refreshing"]
               /\ nTok' = [nTok EXCEPT ![p] = @ + 1]
               /\ sent' = [sent EXCEPT ![p] = Null]
               /\ UNCHANGED <<result, nReq>>
          [] g.outcome = "return" ->
               /\ fetch(p, o, cursor, g.tokens)
               /\ UNCHANGED <<result, nTok>>

\* Faulty variant: a rejected refresh also clears the stored credential
refreshRejected_clears(p) ==
  /\ pc[p] = "refreshing"
  /\ \E st \in RefreshFailStatuses :
       result' = [result EXCEPT ![p] =
          WhoopError("Token refresh failed", ExitCode.AUTH_ERROR, st)]
  /\ pc' = [pc EXCEPT ![p] = "done"]
  /\ gv' = [gv EXCEPT ![p].outcome = "throw"]
  /\ tokenFile' = clearTokens(tokenFile)
  /\ UNCHANGED <<now, ticks, env, issued, pages, op, tokens, records,
                 nextToken, sent, nTok, nReq>>
  /\ UNCHANGED otherVars

\* refreshAccessToken after its await, the authorization server answering
\* non-2xx: throw new WhoopError('Token refresh failed', ...)
refreshRejected(p) ==
  /\ pc[p] = "refreshing"
  /\ \E st \in RefreshFailStatuses :
       result' = [result EXCEPT ![p] =
          WhoopError("Token refresh failed", ExitCode.AUTH_ERROR, st)]
  /\ pc' = [pc EXCEPT ![p] = "done"]
  /\ gv' = [gv EXCEPT ![p].outcome = "throw"]
  /\ UNCHANGED <<now, ticks, tokenFile, env, issued, pages, op, tokens, records,
                 nextToken, sent, nTok, nReq>>
  /\ UNCHANGED otherVars

\* refreshAccessToken after its await, the authorization server answering 2xx:
\* saveTokens(data); return loadTokens()!  getValidTokens returns that and
\* request sends its fetch.
refreshGranted(p) ==
  /\ pc[p] = "refreshing"
  /\ issued < MaxIssued
  /\ \E data \in TokenResponses(issued + 1, tokens[p].refresh_token) :
       /\ tokenFile' = saveTokens(data, now)
       /\ tokens' = [tokens EXCEPT ![p] = loadTokens(tokenFile')]
       /\ gv' = [gv EXCEPT ![p] = [outcome |-> "refreshed", at |-> @.at,
                                   loaded |-> @.loaded, called |-> TRUE,
                                   seq |-> @.seq, response |-> data]]
       /\ fetch(p, op[p], nextToken[p], tokens'[p])
  /\ issued' = issued + 1
  /\ UNCHANGED <<now, ticks, env, pages, op, records, nextToken, result, nTok>>
  /\ UNCHANGED otherVars

\* Faulty variant: the status query refreshes an expired credential
status_refreshes(p) ==
  /\ pc[p] = "idle"
  /\ op' = [op EXCEPT ![p] = [kind |-> "status", at |-> now,
                              stored |-> loadTokens(tokenFile)]]
  /\ result' = [result EXCEPT ![p] = getTokenStatus(tokenFile)]
  /\ pc' = [pc EXCEPT ![p] = "done"]
  /\ nTok' = [nTok EXCEPT ![p] =
        IF getValidTokens(tokenFile, now, env).outcome = "await" THEN @ + 1 ELSE @]
  /\ UNCHANGED <<now, ticks, tokenFile, env, issued, pages, tokens, records,
                 nextToken, gv, sent, nReq>>
  /\ UNCHANGED otherVars

\* auth status: status() -> getTokenStatus()
status(p) ==
  /\ pc[p] = "idle"
  /\ op' = [op EXCEPT ![p] = [kind |-> "status", at |-> now,
                              stored |-> loadTokens(tokenFile)]]
  /\ result' = [result EXCEPT ![p] = getTokenStatus(tokenFile)]
  /\ pc' = [pc EXCEPT ![p] = "done"]
  /\ UNCHANGED <<now, ticks, tokenFile, env, issued, pages, tokens, records,
                 nextToken, gv, sent, nTok, nReq>>
  /\ UNCHANGED otherVars

\* auth logout: logout() -> clearTokens()
logout(p) ==
  /\ pc[p] = "idle"
  /\ op' = [op EXCEPT ![p] = [kind |-> "logout"]]
  /\ tokenFile' = clearTokens(tokenFile)
  /\ result' = [result EXCEPT ![p] = [kind |-> "ok"]]
  /\ pc' = [pc EXCEPT ![p] = "done"]
  /\ UNCHANGED <<now, ticks, env, issued, pages, tokens, records,
                 nextToken, gv, sent, nTok, nReq>>
  /\ UNCHANGED otherVars

\* The resource server's page for a request to endpoint e with cursor c
ServerPage(e, c) ==
  LET k == IF c = Null THEN 1 ELSE c.page
  IN [records |-> [i \in 1..Len(pages[k]) |-> <<e, pages[k][i]>>],
      next_token |-> IF k < Len(pages) THEN Cursor(e, k + 1) ELSE Null]

\* fetchCollection(endpoint, params, fetchAllPages) up to its first await:
\* records = [], nextToken = params.nextToken, the first request()
fetchCollection(p) ==
  /\ pc[p] = "idle"
  /\ \E all \in BOOLEAN, c \in {Null} \cup {Cursor(EndpointOf[p], k) : k \in 2..Len(pages)} :
       LET o == [kind |-> "collection", endpoint |-> EndpointOf[p],
                 all |-> all, nextToken |-> c]
       IN /\ op' = [op EXCEPT ![p] = o]
          /\ nextToken' = [nextToken EXCEPT ![p] = c]
          /\ request(p, o, c)
  /\ UNCHANGED <<now, ticks, tokenFile, env, issued, pages, records>>
  /\ UNCHANGED otherVars

\* revokeUserAccess() up to its first await: requestNoContent(ENDPOINTS.userAccess)
revokeUserAccess(p) ==
  /\ pc[p] = "idle"
  /\ LET o == [kind |-> "revoke", endpoint |-> "userAccess"]
     IN /\ op' = [op EXCEPT ![p] = o]
        /\ request(p, o, Null)
  /\ UNCHANGED <<now, ticks, tokenFile, env, issued, pages, records, nextToken>>
  /\ UNCHANGED otherVars

\* response.ok: the status is in the range 200-299
response_ok(st) == st >= 200 /\ st <= 299

\* Faulty variant: a rate-limit answer is reported as a general failure
ResponseErrorFor_no429(st) ==
  IF st = 401 THEN WhoopError("Authentication failed", ExitCode.AUTH_ERROR, 401)
  ELSE WhoopError("API request failed", ExitCode.GENERAL_ERROR, st)

\* request / requestNoContent: the WhoopError thrown for a response that is
\* not ok
ResponseErrorFor(st) ==
  IF st = 401 THEN WhoopError("Authentication failed", ExitCode.AUTH_ERROR, 401)
  ELSE IF st = 429 THEN WhoopError("Rate limit exceeded", ExitCode.RATE_LIMIT, 429)
  ELSE WhoopError("API request failed", ExitCode.GENERAL_ERROR, st)

\* What a task keeps once its pending request has been answered
Answered(p) ==
  /\ tokens' = [tokens EXCEPT ![p] = Null]
  /\ gv' = [gv EXCEPT ![p] = Null]
  /\ sent' = [sent EXCEPT ![p] = Null]

\* Faulty variant: a 401 answer starts a token refresh instead of failing
ResponseError_refreshes(p) ==
  /\ pc[p] = "awaiting"
  /\ pc' = [pc EXCEPT ![p] = "refreshing"]
  /\ nTok' = [nTok EXCEPT ![p] = @ + 1]
  /\ UNCHANGED <<now, ticks, tokenFile, env, issued, pages, op, tokens, records,
                 nextToken, result, gv, sent, nReq>>
  /\ UNCHANGED otherVars

\* request / requestNoContent: a non-2xx response is thrown as a WhoopError,
\* which fetchCollection and revokeUserAccess let through
ResponseError(p) ==
  /\ pc[p] = "awaiting"
  /\ \E st \in ResponseStatuses :
       /\ ~response_ok(st)
       /\ result' = [result EXCEPT ![p] = ResponseErrorFor(st)]
  /\ pc' = [pc EXCEPT ![p] = "done"]
  /\ Answered(p)
  /\ records' = [records EXCEPT ![p] = <<>>]
  /\ nextToken' = [nextToken EXCEPT ![p] = Null]
  /\ UNCHANGED <<now, ticks, tokenFile, env, issued, pages, op, nTok, nReq>>
  /\ UNCHANGED otherVars

\* revokeUserAccess after a 2xx: clearTokens(); return { revoked: true }
RevokeOk(p) ==
  /\ pc[p] = "awaiting"
  /\ op[p].kind = "revoke"
  /\ tokenFile' = clearTokens(tokenFile)
  /\ result' = [result EXCEPT ![p] = [kind |-> "revoked", revoked |-> TRUE]]
  /\ pc' = [pc EXCEPT ![p] = "done"]
  /\ Answered(p)
  /\ UNCHANGED <<now, ticks, env, issued, pages, op, records, nextToken, nTok, nReq>>
  /\ UNCHANGED otherVars

\* fetchCollection, single page, after a 2xx:
\* return { records: page.records, nextToken: page.next_token }
PageOk(p) ==
  /\ pc[p] = "awaiting"
  /\ op[p].kind = "collection"
  /\ ~op[p].all
  /\ LET page == ServerPage(sent[p].endpoint, sent[p].nextToken)
     IN result' = [result EXCEPT ![p] =
           [kind |-> "collection", records |-> page.records,
            nextToken |-> page.next_token]]
  /\ pc' = [pc EXCEPT ![p] = "done"]
  /\ Answered(p)
  /\ nextToken' = [nextToken EXCEPT ![p] = Null]
  /\ UNCHANGED <<now, ticks, tokenFile, env, issued, pages, op, records, nTok, nReq>>
  /\ UNCHANGED otherVars

\* Faulty variant: the page's records replace the accumulated ones
push_overwrite(recs, items) == items

\* records.push(...page.records)
push(recs, items) == recs \o items

\* Faulty variant: the loop returns after its first page, cursor or not
LoopPageOk_onePage(p) ==
  /\ pc[p] = "awaiting"
  /\ op[p].kind = "collection"
  /\ op[p].all
  /\ LET page == ServerPage(sent[p].endpoint, sent[p].nextToken)
     IN result' = [result EXCEPT ![p] =
           [kind |-> "collection", records |-> push(records[p], page.records),
            nextToken |-> Null]]
  /\ pc' = [pc EXCEPT ![p] = "done"]
  /\ Answered(p)
  /\ records' = [records EXCEPT ![p] = <<>>]
  /\ nextToken' = [nextToken EXCEPT ![p] = Null]
  /\ UNCHANGED <<now, ticks, tokenFile, env, issued, pages, op, nTok, nReq>>
  /\ UNCHANGED otherVars

\* fetchCollection, all pages, after a 2xx: records.push(...page.records);
\* nextToken = page.next_token; while (nextToken) request again, else
\* return { records }
LoopPageOk(p) ==
  /\ pc[p] = "awaiting"
  /\ op[p].kind = "collection"
  /\ op[p].all
  /\ LET page == ServerPage(sent[p].endpoint, sent[p].nextToken)
     IN IF page.next_token # Null
          THEN /\ records' = [records EXCEPT ![p] = push(@, page.records)]
               /\ nextToken' = [nextToken EXCEPT ![p] = page.next_token]
               /\ request(p, op[p], page.next_token)
          ELSE /\ result' = [result EXCEPT ![p] =
                     [kind |-> "collection", records |-> push(records[p], page.records),
                      nextToken |-> Null]]
               /\ pc' = [pc EXCEPT ![p] = "done"]
               /\ Answered(p)
               /\ records' = [records EXCEPT ![p] = <<>>]
               /\ nextToken' = [nextToken EXCEPT ![p] = Null]
               /\ UNCHANGED <<nTok, nReq>>
  /\ UNCHANGED <<now, ticks, tokenFile, env, issued, pages, op>>
  /\ UNCHANGED otherVars

Next ==
  \/ Tick
  \/ \E p \in Tasks :
       \/ fetchCollection(p)
       \/ revokeUserAccess(p)
       \/ status(p)
       \/ logout(p)
       \/ refreshRejected(p)
       \/ refreshGranted(p)
       \/ ResponseError(p)
       \/ RevokeOk(p)
       \/ PageOk(p)
       \/ LoopPageOk(p)

Spec == Init /\ [][Next]_vars

\* ================================================================ cli.ts
\* One invocation of the root command or of a collection command (sleep,
\* recovery, workout, cycle), from its action handler to what it prints.  The
\* handler runs up to its first pending network call as one step; each answer
\* is one step.  Option values are character sequences, so that parsing them
\* is computed.  -d/--date and -e/--end are not given (the day and its range
\* come from utils/date.js); -s/--start is.

DataTypes == {"profile", "body", "sleep", "recovery", "workout", "cycle"}
CollectionTypes == {"sleep", "recovery", "workout", "cycle"}
\* the --id and --cycle-id options each collection command registers
supportsId == [sleep |-> TRUE, recovery |-> FALSE, workout |-> TRUE, cycle |-> TRUE]
supportsCycleId == [sleep |-> TRUE, recovery |-> TRUE, workout |-> FALSE, cycle |-> FALSE]

\* An option given on the command line, with its text
Str(chars) == [kind |-> "str", chars |-> chars]

\* --limit values: in range, out of range, not digits
LimitArgs == {<<"2", "5">>, <<"1">>, <<"0", "2", "5">>,
              <<"0">>, <<"2", "6">>, <<"x">>, <<"-", "1">>, <<"2", ".", "5">>}
\* --id / --cycle-id values
IdArgs == {Str(<<"7">>), Str(<<"0">>), Str(<<"x">>)}
\* --start values
StartArgs == {Str("2026-02-24T04:00:00.000Z"), Str("soon")}
\* the type flags of the root command that are given together
TypeSets == {ts \in SUBSET DataTypes : Cardinality(ts) <= 2}

DigitChars == <<"0", "1", "2", "3", "4", "5", "6", "7", "8", "9">>

\* /^\d+$/.test(value)
test_digits(value) ==
  /\ Len(value) > 0
  /\ \A i \in 1..Len(value) : \E d \in 1..Len(DigitChars) : DigitChars[d] = value[i]

\* Number(value) of a digit string
RECURSIVE Number(_)
Number(value) ==
  IF Len(value) = 0 THEN 0
  ELSE 10 * Number(SubSeq(value, 1, Len(value) - 1))
         + (CHOOSE d \in 1..Len(DigitChars) : DigitChars[d] = value[Len(value)]) - 1

\* Date.parse(value) is NaN
Date_parse_isNaN(value) == value.chars # "2026-02-24T04:00:00.000Z"

\* what a call gives: a value returned, an error thrown, a pending network call
Return(value) == [kind |-> "return", value |-> value]
Throw(error) == [kind |-> "throw", error |-> error]
Await(endpoint) == [kind |-> "await", endpoint |-> endpoint]

validateDateTimeOption(value, flag) ==
  IF value = Null THEN Return(Null)
  ELSE IF Date_parse_isNaN(value)
    THEN Throw(WhoopError(
           IF flag = "--start"
             THEN "Invalid --start datetime. Use ISO format like 2026-02-24T04:00:00.000Z"
             ELSE "Invalid --end datetime. Use ISO format like 2026-02-24T04:00:00.000Z",
           ExitCode.GENERAL_ERROR, NoStatus))
    ELSE Return(Null)

\* parseLimit(limit).  A digit string that is not a safe integer is above 25,
\* so Number.isSafeInteger adds no case to parsed > 25.
parseLimit(limit) ==
  IF ~test_digits(limit)
    THEN Throw(WhoopError("Limit must be an integer between 1 and 25",
                          ExitCode.GENERAL_ERROR, NoStatus))
    ELSE LET parsed == Number(limit)
         IN IF parsed <= 0 \/ parsed > 25
              THEN Throw(WhoopError("Limit must be an integer between 1 and 25",
                                    ExitCode.GENERAL_ERROR, NoStatus))
              ELSE Return(parsed)

\* parseCycleId(value) = parsePositiveInteger(value, 'cycle_id')
parseCycleId(value) ==
  IF ~test_digits(value.chars)
    THEN Throw(WhoopError("cycle_id must be a positive integer",
                          ExitCode.GENERAL_ERROR, NoStatus))
    ELSE LET parsed == Number(value.chars)
         IN IF parsed <= 0
              THEN Throw(WhoopError("cycle_id must be a positive integer",
                                    ExitCode.GENERAL_ERROR, NoStatus))
              ELSE Return(parsed)

\* resolveByIdOrCycle(type, options, date) up to its await: null, an error, or
\* the by-id / by-cycle getter it awaits
resolveByIdOrCycle(type, options) ==
  IF options.id # Null /\ options.cycleId # Null
    THEN Throw(WhoopError("Use either --id or --cycle-id, not both",
                          ExitCode.GENERAL_ERROR, NoStatus))
  ELSE IF options.id # Null
    THEN IF type = "sleep" THEN Await("sleepById")
         ELSE IF type = "workout" THEN Await("workoutById")
         ELSE IF type = "cycle"
           THEN IF parseCycleId(options.id).kind = "throw"
                  THEN parseCycleId(options.id) ELSE Await("cycleById")
         ELSE Throw(WhoopError("--id is not supported", ExitCode.GENERAL_ERROR, NoStatus))
  ELSE IF options.cycleId # Null
    THEN IF parseCycleId(options.cycleId).kind = "throw"
           THEN parseCycleId(options.cycleId)
         ELSE IF type = "sleep" THEN Await("sleepByCycleId")
         ELSE IF type = "recovery" THEN Await("recoveryByCycleId")
         ELSE Throw(WhoopError("--cycle-id is not supported",
                               ExitCode.GENERAL_ERROR, NoStatus))
  ELSE Return(Null)

\* The invocations: every option combination the commands register
CommonOptions ==
  [limit : LimitArgs, all : BOOLEAN, start : {Null} \cup StartArgs]

RootInvocations ==
  { [command |-> "root", limit |-> c.limit, all |-> c.all, start |-> c.start,
     nextToken |-> n, types |-> ts, id |-> Null, cycleId |-> Null] :
      c \in CommonOptions, n \in {Null, Cursor("sleep", 2)}, ts \in TypeSets }

CollectionInvocations ==
  UNION { { [command |-> t, limit |-> c.limit, all |-> c.all, start |-> c.start,
             nextToken |-> n, types |-> {}, id |-> i, cycleId |-> y] :
              c \in CommonOptions, n \in {Null, Cursor(t, 2)},
              i \in {Null} \cup (IF supportsId[t] THEN IdArgs ELSE {}),
              y \in {Null} \cup (IF supportsCycleId[t] THEN IdArgs ELSE {}) } :
          t \in CollectionTypes }

\* summary [--date], trends [--days], insights [--date]
DateArgs == {Null, Str("2026-02-24"), Str("soon")}
DaysArgs == {<<"7">>, <<"1", "4">>, <<"3", "0">>, <<"8">>, <<"7", "x">>,
             <<"x">>, <<"-", "7">>}

ReportInvocations ==
  { [command |-> c, date |-> d, days |-> <<"7">>, limit |-> <<"2", "5">>,
     all |-> FALSE, start |-> Null, nextToken |-> Null, types |-> {},
     id |-> Null, cycleId |-> Null] : c \in {"summary", "insights"}, d \in DateArgs }
  \cup
  { [command |-> "trends", date |-> Null, days |-> n, limit |-> <<"2", "5">>,
     all |-> FALSE, start |-> Null, nextToken |-> Null, types |-> {},
     id |-> Null, cycleId |-> Null] : n \in DaysArgs }

\* validateISODate(date) of utils/date: YYYY-MM-DD
validateISODate(date) == date.chars = "2026-02-24"

validateDateOption(date) ==
  IF date # Null /\ ~validateISODate(date)
    THEN Throw(WhoopError("Invalid date format. Use YYYY-MM-DD",
                          ExitCode.GENERAL_ERROR, NoStatus))
    ELSE Return(Null)

\* Number.parseInt(value, 10): an optional sign, then the leading digits;
\* NaN when there is none
RECURSIVE DigitPrefix(_)
DigitPrefix(value) ==
  IF Len(value) = 0 \/ ~test_digits(<<value[1]>>) THEN <<>>
  ELSE <<value[1]>> \o DigitPrefix(Tail(value))

Number_parseInt(value) ==
  LET negative == Len(value) > 0 /\ value[1] = "-"
      digits == DigitPrefix(IF negative THEN Tail(value) ELSE value)
  IN [isNaN |-> digits = <<>>,
      n |-> IF negative THEN 0 - Number(digits) ELSE Number(digits)]

\* the day range a date-based query starts at: getDaysAgo(days) and the
\* start of the given day
DaysAgo(days) == [kind |-> "daysAgo", days |-> days]
DayOf(date) == [kind |-> "dayOf", date |-> date]

\* `{ limit: 25, ...params }` of the get*Collection functions
DefaultLimit(params) ==
  IF "limit" \in DOMAIN params THEN params ELSE [limit |-> 25] @@ params

\* fetcher states: not started, and rejected with an error (the records a
\* fetch-all had pushed so far are lost with its frame)
NoFetcher == [st |-> "none"]
Rejected(error, pushed) == [st |-> "rejected", error |-> error, records |-> pushed]

InitCli ==
  /\ now = 0
  /\ ticks = 0
  /\ tokenFile \in {EmptyFile, JSON_stringify(StoredCredential(3600))}
  /\ env = [WHOOP_CLIENT_ID |-> TRUE, WHOOP_CLIENT_SECRET |-> TRUE]
  /\ issued = 0
  /\ pages = DefaultPages
  /\ pc = Idle("off")
  /\ op = Idle(Null)
  /\ tokens = Idle(Null)
  /\ records = Idle(<<>>)
  /\ nextToken = Idle(Null)
  /\ result = Idle(Null)
  /\ gv = Idle(Null)
  /\ sent = Idle(Null)
  /\ nTok = Idle(0)
  /\ nReq = Idle(0)
  /\ argv \in RootInvocations \cup CollectionInvocations \cup ReportInvocations
  /\ cliPc = "start"
  /\ fetcherSt = [t \in DataTypes |-> NoFetcher]
  /\ output = [t \in DataTypes |-> Null]
  /\ pagination = [t \in DataTypes |-> Null]
  /\ netCalls = 0
  /\ exit = Null
  /\ NoFormat

\* catch (error) { handleError(error) }: the invocation ends with the error
handleError(error) ==
  /\ exit' = error
  /\ cliPc' = "exited"

\* output(result, pretty): the invocation ends with the data printed
Output(printed) ==
  /\ exit' = printed
  /\ cliPc' = "exited"

\* fetchData(types, date, options) up to `await Promise.all(...)`: every
\* fetcher of `types` is started and runs to the fetch of its first request
\* (or to the throw of getValidTokens, which rejects the whole call)
fetchData(types, options) ==
  LET g == getValidTokens(tokenFile, now, env)
  IN IF g.outcome = "throw"
       THEN /\ handleError(g.error)
            /\ fetcherSt' = [t \in DataTypes |->
                 IF t \in types THEN Rejected(g.error, <<>>) ELSE NoFetcher]
            /\ UNCHANGED <<output, pagination, netCalls>>
       ELSE /\ fetcherSt' = [t \in DataTypes |->
                 IF t \in types
                   THEN [st |-> "pending",
                         all |-> options.all /\ t \in CollectionTypes,
                         limit |-> options.limit,
                         start |-> options.start,
                         first |-> IF t \in CollectionTypes THEN options.nextToken ELSE Null,
                         nextToken |-> IF t \in CollectionTypes THEN options.nextToken ELSE Null,
                         records |-> <<>>]
                   ELSE NoFetcher]
            /\ netCalls' = netCalls + Cardinality(types)
            /\ cliPc' = "fetching"
            /\ UNCHANGED <<output, pagination, exit>>

\* the action of a collection command (addCollectionCommand)
collectionAction ==
  /\ cliPc = "start"
  /\ argv.command \in CollectionTypes
  /\ LET v == validateDateTimeOption(argv.start, "--start")
         idResult == resolveByIdOrCycle(argv.command, argv)
         g == getValidTokens(tokenFile, now, env)
         limit == parseLimit(argv.limit)
     IN IF v.kind = "throw"
          THEN /\ handleError(v.error)
               /\ UNCHANGED <<fetcherSt, output, pagination, netCalls>>
        ELSE IF idResult.kind = "throw"
          THEN /\ handleError(idResult.error)
               /\ UNCHANGED <<fetcherSt, output, pagination, netCalls>>
        ELSE IF idResult.kind = "await"
          THEN IF g.outcome = "throw"
                 THEN /\ handleError(g.error)
                      /\ UNCHANGED <<fetcherSt, output, pagination, netCalls>>
                 ELSE /\ cliPc' = "resolving"
                      /\ netCalls' = netCalls + 1
                      /\ UNCHANGED <<fetcherSt, output, pagination, exit>>
        ELSE IF limit.kind = "throw"
          THEN /\ handleError(limit.error)
               /\ UNCHANGED <<fetcherSt, output, pagination, netCalls>>
        ELSE fetchData({argv.command},
                       [limit |-> limit.value, all |-> argv.all,
                        start |-> argv.start, nextToken |-> argv.nextToken])
  /\ UNCHANGED <<argv, clientVars, formatVars>>

\* Faulty variant: the root command takes --next-token with any types
rootAction_anyTypes ==
  /\ cliPc = "start"
  /\ argv.command = "root"
  /\ LET v == validateDateTimeOption(argv.start, "--start")
         limit == parseLimit(argv.limit)
     IN IF v.kind = "throw"
          THEN /\ handleError(v.error)
               /\ UNCHANGED <<fetcherSt, output, pagination, netCalls>>
        ELSE IF limit.kind = "throw"
          THEN /\ handleError(limit.error)
               /\ UNCHANGED <<fetcherSt, output, pagination, netCalls>>
        ELSE fetchData(IF argv.types = {} THEN DataTypes ELSE argv.types,
                       [limit |-> limit.value, all |-> argv.all,
                        start |-> argv.start, nextToken |-> argv.nextToken])
  /\ UNCHANGED <<argv, clientVars, formatVars>>

\* the action of the root command; with no type flag it is fetchAllTypes
rootAction ==
  /\ cliPc = "start"
  /\ argv.command = "root"
  /\ LET v == validateDateTimeOption(argv.start, "--start")
         types == argv.types
         collectionTypes == types \cap CollectionTypes
         limit == parseLimit(argv.limit)
     IN IF v.kind = "throw"
          THEN /\ handleError(v.error)
               /\ UNCHANGED <<fetcherSt, output, pagination, netCalls>>
        ELSE IF /\ argv.nextToken # Null
                /\ Cardinality(types) # 1 \/ Cardinality(collectionTypes) # 1
          THEN /\ handleError(WhoopError(
                    "--next-token can only be used with exactly one collection type: --sleep, --recovery, --workout, or --cycle",
                    ExitCode.GENERAL_ERROR, NoStatus))
               /\ UNCHANGED <<fetcherSt, output, pagination, netCalls>>
        ELSE IF limit.kind = "throw"
          THEN /\ handleError(limit.error)
               /\ UNCHANGED <<fetcherSt, output, pagination, netCalls>>
        ELSE fetchData(IF types = {} THEN DataTypes ELSE types,
                       [limit |-> limit.value, all |-> argv.all,
                        start |-> argv.start, nextToken |-> argv.nextToken])
  /\ UNCHANGED <<argv, clientVars, formatVars>>

\* Promise.all([getRecovery(params, true), ...]) of trends and insights up
\* to its await: every get*Collection(params, true) starts a fetch-all with
\* `{ limit: 25, ...params }` and runs to the fetch of its first request
getCollections(paramsOf) ==
  LET g == getValidTokens(tokenFile, now, env)
  IN IF g.outcome = "throw"
       THEN /\ handleError(g.error)
            /\ fetcherSt' = [t \in DataTypes |->
                 IF t \in DOMAIN paramsOf THEN Rejected(g.error, <<>>) ELSE NoFetcher]
            /\ UNCHANGED <<output, pagination, netCalls>>
       ELSE /\ fetcherSt' = [t \in DataTypes |->
                 IF t \in DOMAIN paramsOf
                   THEN [st |-> "pending",
                         all |-> TRUE,
                         limit |-> DefaultLimit(paramsOf[t]).limit,
                         start |-> paramsOf[t].start,
                         first |-> Null,
                         nextToken |-> Null,
                         records |-> <<>>]
                   ELSE NoFetcher]
            /\ netCalls' = netCalls + Cardinality(DOMAIN paramsOf)
            /\ cliPc' = "fetching"
            /\ UNCHANGED <<output, pagination, exit>>

\* the action of the summary command
summaryAction ==
  /\ cliPc = "start"
  /\ argv.command = "summary"
  /\ LET v == validateDateOption(argv.date)
     IN IF v.kind = "throw"
          THEN /\ handleError(v.error)
               /\ UNCHANGED <<fetcherSt, output, pagination, netCalls>>
          ELSE fetchData({"recovery", "sleep", "cycle", "workout"},
                         [limit |-> 25, all |-> FALSE, start |-> Null,
                          nextToken |-> Null])
  /\ UNCHANGED <<argv, clientVars, formatVars>>

\* the action of the trends command
trendsAction ==
  /\ cliPc = "start"
  /\ argv.command = "trends"
  /\ LET days == Number_parseInt(argv.days)
     IN IF days.isNaN \/ days.n \notin {7, 14, 30}
          THEN /\ handleError(WhoopError("Days must be 7, 14, or 30",
                                         ExitCode.GENERAL_ERROR, NoStatus))
               /\ UNCHANGED <<fetcherSt, output, pagination, netCalls>>
          ELSE getCollections(
                 [t \in {"recovery", "sleep", "cycle"} |->
                    [start |-> DaysAgo(days.n), limit |-> days.n + 5]])
  /\ UNCHANGED <<argv, clientVars, formatVars>>

\* the action of the insights command
insightsAction ==
  /\ cliPc = "start"
  /\ argv.command = "insights"
  /\ LET v == validateDateOption(argv.date)
     IN IF v.kind = "throw"
          THEN /\ handleError(v.error)
               /\ UNCHANGED <<fetcherSt, output, pagination, netCalls>>
          ELSE getCollections(
                 [t \in CollectionTypes |->
                    IF t = "workout" THEN [start |-> DayOf(argv.date)]
                                     ELSE [start |-> DaysAgo(7)]])
  /\ UNCHANGED <<argv, clientVars, formatVars>>

\* resolveByIdOrCycle after its await, the request answered 2xx:
\* output(wrapSingleRecord(key, date, item)); return
resolvedRecord ==
  /\ cliPc = "resolving"
  /\ Output([kind |-> "output",
             data |-> [t \in DataTypes |->
                IF t = argv.command
                  THEN [kind |-> "records", records |-> <<<<t, "item">>>>]
                  ELSE Null],
             pagination |-> Null])
  /\ UNCHANGED <<argv, fetcherSt, output, pagination, netCalls, clientVars, formatVars>>

\* resolveByIdOrCycle after its await, the request not answered 2xx
resolvedError ==
  /\ cliPc = "resolving"
  /\ \E st \in ResponseStatuses :
       /\ ~response_ok(st)
       /\ handleError(ResponseErrorFor(st))
  /\ UNCHANGED <<argv, fetcherSt, output, pagination, netCalls, clientVars, formatVars>>

\* A fetcher of fetchData after its get call returned: output[type] is set
\* (and pagination[type] when a cursor came back); when it was the last one,
\* Promise.all resolves, fetchData returns output (with output.pagination
\* `if (Object.keys(pagination).length > 0)`) and the action prints it.
\* What the action prints of the awaited result: the combined output, or the
\* text that formatSummary / formatTrends / formatInsights make of the records
Printed(out, pag) ==
  IF argv.command \in {"summary", "trends", "insights"}
    THEN [kind |-> argv.command, data |-> out]
    ELSE [kind |-> "output", data |-> out,
          pagination |-> IF \E u \in DataTypes : pag[u] # Null THEN pag ELSE Null]

\* Faulty variant: output.pagination is assigned even when it has no key
Fulfil_alwaysPagination(t, value, cursor) ==
  LET out == [output EXCEPT ![t] = value]
      pag == [pagination EXCEPT ![t] = cursor]
      fs == [fetcherSt EXCEPT ![t] = [st |-> "fulfilled"]]
  IN /\ output' = out
     /\ pagination' = pag
     /\ fetcherSt' = fs
     /\ IF \A u \in DataTypes : fs[u].st \in {"none", "fulfilled"}
          THEN Output([kind |-> "output", data |-> out, pagination |-> pag])
          ELSE UNCHANGED <<exit, cliPc>>

\* Faulty variant: the output is printed when the first fetcher returns
Fulfil_noJoin(t, value, cursor) ==
  LET out == [output EXCEPT ![t] = value]
      pag == [pagination EXCEPT ![t] = cursor]
  IN /\ output' = out
     /\ pagination' = pag
     /\ fetcherSt' = [fetcherSt EXCEPT ![t] = [st |-> "fulfilled"]]
     /\ Output([kind |-> "output", data |-> out,
                pagination |-> IF \E u \in DataTypes : pag[u] # Null
                                 THEN pag ELSE Null])

Fulfil(t, value, cursor) ==
  LET out == [output EXCEPT ![t] = value]
      pag == [pagination EXCEPT ![t] = cursor]
      fs == [fetcherSt EXCEPT ![t] = [st |-> "fulfilled"]]
  IN /\ output' = out
     /\ pagination' = pag
     /\ fetcherSt' = fs
     /\ IF \A u \in DataTypes : fs[u].st \in {"none", "fulfilled"}
          THEN Output(Printed(out, pag))
          ELSE UNCHANGED <<exit, cliPc>>

\* Faulty variant: a failed fetcher is skipped and the others' output is printed
fetcherRejects_swallowed(t) ==
  /\ cliPc = "fetching"
  /\ fetcherSt[t].st = "pending"
  /\ \E st \in ResponseStatuses :
       /\ ~response_ok(st)
       /\ fetcherSt' = [fetcherSt EXCEPT ![t] =
             Rejected(ResponseErrorFor(st), fetcherSt[t].records)]
  /\ IF \A u \in DataTypes : fetcherSt'[u].st # "pending"
       THEN Output([kind |-> "output", data |-> output,
                    pagination |-> IF \E u \in DataTypes : pagination[u] # Null
                                     THEN pagination ELSE Null])
       ELSE UNCHANGED <<exit, cliPc>>
  /\ UNCHANGED <<argv, output, pagination, netCalls, clientVars, formatVars>>

\* A fetcher's request is not answered 2xx: request throws, the fetcher
\* rejects, Promise.all rejects with that error, and the action's catch
\* hands it to handleError.
fetcherRejects(t) ==
  /\ cliPc = "fetching"
  /\ fetcherSt[t].st = "pending"
  /\ \E st \in ResponseStatuses :
       /\ ~response_ok(st)
       /\ fetcherSt' = [fetcherSt EXCEPT ![t] =
             Rejected(ResponseErrorFor(st), fetcherSt[t].records)]
       /\ handleError(fetcherSt'[t].error)
  /\ UNCHANGED <<argv, output, pagination, netCalls, clientVars, formatVars>>

\* A fetcher's request is answered 2xx: getProfile / getBody return the
\* object; fetchCollection returns the page, or in a fetch-all pushes its
\* records and requests the next page while a cursor comes back.
fetcherPage(t) ==
  /\ cliPc = "fetching"
  /\ fetcherSt[t].st = "pending"
  /\ IF t \notin CollectionTypes
       THEN /\ Fulfil(t, [kind |-> "object", type |-> t], Null)
            /\ UNCHANGED netCalls
       ELSE LET page == ServerPage(t, fetcherSt[t].nextToken)
                g == getValidTokens(tokenFile, now, env)
            IN IF ~fetcherSt[t].all
                 THEN /\ Fulfil(t, [kind |-> "records", records |-> page.records],
                                page.next_token)
                      /\ UNCHANGED netCalls
               ELSE IF page.next_token = Null
                 THEN /\ Fulfil(t, [kind |-> "records",
                                    records |-> push(fetcherSt[t].records, page.records)],
                                Null)
                      /\ UNCHANGED netCalls
               ELSE IF g.outcome = "throw"
                 THEN /\ handleError(g.error)
                      /\ fetcherSt' = [fetcherSt EXCEPT ![t] =
                            Rejected(g.error, push(fetcherSt[t].records, page.records))]
                      /\ UNCHANGED <<output, pagination, netCalls>>
               ELSE /\ fetcherSt' = [fetcherSt EXCEPT
                                       ![t].records = push(@, page.records),
                                       ![t].nextToken = page.next_token]
                    /\ netCalls' = netCalls + 1
                    /\ UNCHANGED <<output, pagination, exit, cliPc>>
  /\ UNCHANGED <<argv, clientVars, formatVars>>

NextCli ==
  \/ collectionAction
  \/ rootAction
  \/ summaryAction
  \/ trendsAction
  \/ insightsAction
  \/ resolvedRecord
  \/ resolvedError
  \/ \E t \in DataTypes :
       \/ fetcherRejects(t)
       \/ fetcherPage(t)

SpecCli == InitCli /\ [][NextCli]_vars

\* ======================================================= utils/format.ts
\* The representative record of a day's collection (getRecovery, getSleep,
\* getCycle) and the summary line built from it, on any WhoopData holding one
\* collection of up to MaxRecords records.

ScoreStates == {"SCORED", "PENDING_SCORE", "UNSCORABLE"}
\* a score payload, where the record has one
SleepScore == [kind |-> "score", sleep_performance_percentage |-> 85]
OtherScore == [kind |-> "score", value |-> 50]

Array(items) == [kind |-> "array", items |-> items]

\* score_state and score of a record: a payload comes only with SCORED (and
\* the type leaves it optional even then)
Scorings(payload) ==
  { sc \in [score_state : ScoreStates, score : {Null, payload}] :
      sc.score # Null => sc.score_state = "SCORED" }

\* the records a server can return for a day; id is the place in server order
SleepRecords(n) ==
  { [i \in 1..n |-> [id |-> i, nap |-> f[i][1], score_state |-> f[i][2].score_state,
                     score |-> f[i][2].score]] :
      f \in [1..n -> BOOLEAN \X Scorings(SleepScore)] }

ScoredRecords(n) ==
  { [i \in 1..n |-> [id |-> i, score_state |-> f[i].score_state, score |-> f[i].score]] :
      f \in [1..n -> Scorings(OtherScore)] }

\* Array.prototype.find, given for each element whether it passes the test:
\* the first element passing, or undefined
find(arr, passes) ==
  IF \E i \in 1..Len(arr) : passes[i]
    THEN arr[CHOOSE i \in 1..Len(arr) : passes[i] /\ \A j \in 1..(i - 1) : ~passes[j]]
    ELSE Null

\* arr?.[0]
first(coll) ==
  IF coll = Null THEN Null
  ELSE IF Len(coll.items) = 0 THEN Null
  ELSE coll.items[1]

isScored(r) == r.score_state = "SCORED" /\ r.score # Null
isScoredSleep(r) == ~r.nap /\ r.score_state = "SCORED" /\ r.score # Null

getRecovery(d) ==
  LET found == IF d.recovery = Null THEN Null
               ELSE find(d.recovery.items,
                         [i \in 1..Len(d.recovery.items) |-> isScored(d.recovery.items[i])])
  IN IF found # Null THEN found ELSE first(d.recovery)

\* Faulty variant: the first record, scored or not
getSleep_first(d) == first(d.sleep)

getSleep(d) ==
  LET found == IF d.sleep = Null THEN Null
               ELSE find(d.sleep.items,
                         [i \in 1..Len(d.sleep.items) |-> isScoredSleep(d.sleep.items[i])])
  IN IF found # Null THEN found ELSE first(d.sleep)

\* Faulty variant: no fallback to the first record
getCycle_scoredOnly(d) ==
  IF d.cycle = Null THEN Null
  ELSE find(d.cycle.items, [i \in 1..Len(d.cycle.items) |-> isScored(d.cycle.items[i])])

getCycle(d) ==
  LET found == IF d.cycle = Null THEN Null
               ELSE find(d.cycle.items,
                         [i \in 1..Len(d.cycle.items) |-> isScored(d.cycle.items[i])])
  IN IF found # Null THEN found ELSE first(d.cycle)

\* One part of the summary line: a label with a score value or a score state
Part(label, kind, value) == [label |-> label, kind |-> kind, value |-> value]

\* formatSummary(data): the parts pushed, in order
formatSummary(d) ==
  LET recovery == getRecovery(d)
      sleep == getSleep(d)
      cycle == getCycle(d)
      p1 == IF recovery # Null /\ recovery.score # Null
              THEN <<Part("Recovery", "score", recovery.score.value),
                     Part("HRV", "score", recovery.score.value),
                     Part("RHR", "score", recovery.score.value)>>
            ELSE IF recovery # Null
              THEN <<Part("Recovery", "state", recovery.score_state)>>
            ELSE <<>>
      p2 == IF sleep # Null /\ sleep.score # Null
              THEN <<Part("Sleep", "score", sleep.score.sleep_performance_percentage)>>
            ELSE IF sleep # Null
              THEN <<Part("Sleep", "state", sleep.score_state)>>
            ELSE <<>>
      p3 == IF cycle # Null /\ cycle.score # Null
              THEN <<Part("Strain", "score", cycle.score.value)>>
            ELSE IF cycle # Null
              THEN <<Part("Strain", "state", cycle.score_state)>>
            ELSE <<>>
      p4 == IF d.workout # Null /\ Len(d.workout.items) > 0
              THEN <<Part("Workouts", "count", Len(d.workout.items))>>
            ELSE <<>>
  IN p1 \o p2 \o p3 \o p4

\* statusIcon(value, green, yellow) with invert = false
statusIcon(value, green, yellow) ==
  IF value >= green THEN "green" ELSE IF value >= yellow THEN "yellow" ELSE "red"

\* Math.abs(c.strain - optimal)
Math_abs(x) == IF x < 0 THEN 0 - x ELSE x

\* formatSummaryColor(data): what its lines hold, in order.  The one number of
\* a score payload stands for each of its numeric fields.
formatSummaryColor(d) ==
  LET recovery == getRecovery(d)
      sleep == getSleep(d)
      cycle == getCycle(d)
      l1 == IF recovery # Null /\ recovery.score # Null
              THEN <<Part("Recovery", "icon", statusIcon(recovery.score.value, 67, 34)),
                     Part("Recovery", "score", recovery.score.value),
                     Part("HRV", "score", recovery.score.value),
                     Part("RHR", "score", recovery.score.value)>>
            ELSE IF recovery # Null
              THEN <<Part("Recovery", "state", recovery.score_state)>>
            ELSE <<>>
      l2 == IF sleep # Null /\ sleep.score # Null
              THEN <<Part("Sleep", "icon",
                          statusIcon(sleep.score.sleep_performance_percentage, 85, 70)),
                     Part("Sleep", "score", sleep.score.sleep_performance_percentage),
                     Part("h", "score", sleep.score.sleep_performance_percentage),
                     Part("Efficiency", "score", sleep.score.sleep_performance_percentage)>>
            ELSE IF sleep # Null
              THEN <<Part("Sleep", "state", sleep.score_state)>>
            ELSE <<>>
      recoveryScore == IF recovery # Null /\ recovery.score # Null
                         THEN recovery.score.value ELSE 50
      optimal == IF recoveryScore >= 67 THEN 14 ELSE IF recoveryScore >= 34 THEN 10 ELSE 6
      l3 == IF cycle # Null /\ cycle.score # Null
              THEN LET diff == Math_abs(cycle.score.value - optimal)
                   IN <<Part("Strain", "icon",
                             IF diff <= 2 THEN "green" ELSE IF diff <= 4 THEN "yellow" ELSE "red"),
                        Part("Strain", "score", cycle.score.value),
                        Part("optimal", "target", optimal),
                        Part("cal", "score", cycle.score.value)>>
            ELSE IF cycle # Null
              THEN <<Part("Strain", "state", cycle.score_state)>>
            ELSE <<>>
      l4 == IF d.workout # Null /\ Len(d.workout.items) > 0
              THEN <<Part("Workouts", "count", Len(d.workout.items))>>
            ELSE <<>>
  IN l1 \o l2 \o l3 \o l4

\* the line of each workout in formatPretty
RECURSIVE workoutLines_noGuard(_)
workoutLines_noGuard(items) ==
  IF Len(items) = 0 THEN <<>>
  ELSE LET w == Head(items)
       IN <<Part("Workout", "score", IF w.score # Null THEN w.score.value ELSE 0)>>
            \o workoutLines_noGuard(Tail(items))

RECURSIVE workoutLines(_)
workoutLines(items) ==
  IF Len(items) = 0 THEN <<>>
  ELSE LET w == Head(items)
       IN (IF w.score # Null
             THEN <<Part("Workout", "score", w.score.value)>>
             ELSE <<Part("Workout", "state", w.score_state)>>)
            \o workoutLines(Tail(items))

\* formatPretty(data): what its lines hold, in order (the date, profile, body
\* and pagination lines hold no record of a collection)
formatPretty(d) ==
  LET recovery == getRecovery(d)
      sleep == getSleep(d)
      cycle == getCycle(d)
      l1 == IF recovery # Null /\ recovery.score # Null
              THEN <<Part("Recovery", "score", recovery.score.value),
                     Part("HRV", "score", recovery.score.value),
                     Part("RHR", "score", recovery.score.value)>>
            ELSE IF recovery # Null
              THEN <<Part("Recovery", "state", recovery.score_state)>>
            ELSE <<>>
      l2 == IF sleep # Null /\ sleep.score # Null
              THEN <<Part("Sleep", "score", sleep.score.sleep_performance_percentage),
                     Part("h", "score", sleep.score.sleep_performance_percentage),
                     Part("Efficiency", "score", sleep.score.sleep_performance_percentage),
                     Part("REM", "score", sleep.score.sleep_performance_percentage),
                     Part("Deep", "score", sleep.score.sleep_performance_percentage)>>
            ELSE IF sleep # Null
              THEN <<Part("Sleep", "state", sleep.score_state)>>
            ELSE <<>>
      l3 == IF d.workout # Null /\ Len(d.workout.items) > 0
              THEN workoutLines(d.workout.items)
            ELSE <<>>
      l4 == IF cycle # Null /\ cycle.score # Null
              THEN <<Part("Day strain", "score", cycle.score.value),
                     Part("cal", "score", cycle.score.value),
                     Part("Avg HR", "score", cycle.score.value)>>
            ELSE IF cycle # Null
              THEN <<Part("Cycle", "state", cycle.score_state)>>
            ELSE <<>>
  IN l1 \o l2 \o l3 \o l4

\* a recovery score payload of the upper band
HighScore == [kind |-> "score", value |-> 85]

\* a day with records of every collection: at most one sleep, recovery and
\* cycle record, up to MaxWorkouts workouts
ArraysOf(recs) == {Null, Array(<<>>)} \cup {Array(<<r>>) : r \in recs}

DayData ==
  [sleep : ArraysOf({[id |-> 1, nap |-> FALSE, score_state |-> sc.score_state,
                      score |-> sc.score] : sc \in Scorings(SleepScore)}),
   recovery : ArraysOf({[id |-> 1, score_state |-> sc.score_state, score |-> sc.score] :
                          sc \in Scorings(OtherScore) \cup Scorings(HighScore)}),
   cycle : ArraysOf({[id |-> 1, score_state |-> sc.score_state, score |-> sc.score] :
                       sc \in Scorings(OtherScore)}),
   workout : {Null} \cup UNION {{Array(l) : l \in ScoredRecords(n)} : n \in 0..MaxWorkouts}]

NoData == [sleep |-> Null, recovery |-> Null, cycle |-> Null, workout |-> Null]

InitFormat ==
  /\ now = 0
  /\ ticks = 0
  /\ tokenFile = AbsentFile
  /\ env = [WHOOP_CLIENT_ID |-> TRUE, WHOOP_CLIENT_SECRET |-> TRUE]
  /\ issued = 0
  /\ pages = DefaultPages
  /\ pc = Idle("off")
  /\ op = Idle(Null)
  /\ tokens = Idle(Null)
  /\ records = Idle(<<>>)
  /\ nextToken = Idle(Null)
  /\ result = Idle(Null)
  /\ gv = Idle(Null)
  /\ sent = Idle(Null)
  /\ nTok = Idle(0)
  /\ nReq = Idle(0)
  /\ NoCli
  /\ \E n \in 0..MaxRecords :
       \/ \E l \in SleepRecords(n) : whoopData = [NoData EXCEPT !.sleep = Array(l)]
       \/ \E l \in ScoredRecords(n) : whoopData = [NoData EXCEPT !.recovery = Array(l)]
       \/ \E l \in ScoredRecords(n) : whoopData = [NoData EXCEPT !.cycle = Array(l)]
       \/ whoopData = NoData
       \/ whoopData \in DayData
  /\ rep = Null

\* the summary command after fetchData: formatSummary(result)
summary ==
  /\ rep = Null
  /\ rep' = [kind |-> "summary",
             recovery |-> getRecovery(whoopData),
             sleep |-> getSleep(whoopData),
             cycle |-> getCycle(whoopData),
             parts |-> formatSummary(whoopData)]
  /\ UNCHANGED <<whoopData, clientVars, cliVars>>

\* the summary command with --color: formatSummaryColor(result)
summaryColor ==
  /\ rep = Null
  /\ rep' = [kind |-> "summaryColor",
             recovery |-> getRecovery(whoopData),
             sleep |-> getSleep(whoopData),
             cycle |-> getCycle(whoopData),
             parts |-> formatSummaryColor(whoopData)]
  /\ UNCHANGED <<whoopData, clientVars, cliVars>>

\* output(result, true) of the data commands: formatPretty(result)
pretty ==
  /\ rep = Null
  /\ rep' = [kind |-> "pretty",
             recovery |-> getRecovery(whoopData),
             sleep |-> getSleep(whoopData),
             cycle |-> getCycle(whoopData),
             parts |-> formatPretty(whoopData)]
  /\ UNCHANGED <<whoopData, clientVars, cliVars>>

NextFormat ==
  \/ summary
  \/ summaryColor
  \/ pretty

SpecFormat == InitFormat /\ [][NextFormat]_vars

\* ================================== auth/tokens.ts across invocations
\* Two invocations (processes) share TOKEN_FILE.  writeFileSync(TOKEN_FILE, ...)
\* opens the file truncating it and then writes the content: two steps to any
\* other process.  Each invocation saves at most once and loads at will.

InitStore ==
  /\ now = 0
  /\ ticks = 0
  /\ tokenFile = JSON_stringify(StoredCredential(3600))
  /\ env = [WHOOP_CLIENT_ID |-> TRUE, WHOOP_CLIENT_SECRET |-> TRUE]
  /\ issued = 0
  /\ pages = DefaultPages
  /\ pc = Idle("idle")
  /\ op = Idle(Null)
  /\ tokens = Idle(Null)
  /\ records = Idle(<<>>)
  /\ nextToken = Idle(Null)
  /\ result = Idle(Null)
  /\ gv = Idle(Null)
  /\ sent = Idle(Null)
  /\ nTok = Idle(0)
  /\ nReq = Idle(0)
  /\ NoCli
  /\ NoFormat

\* saveTokens(response), first half: writeFileSync opens TOKEN_FILE with
\* O_TRUNC (flag 'w'); the file is empty until the content is written
writeFileSync_open(p) ==
  /\ pc[p] = "idle"
  /\ \E response \in TokenResponses(p, 0) :
       op' = [op EXCEPT ![p] = [kind |-> "save",
                                content |-> saveTokens(response, now)]]
  /\ tokenFile' = EmptyFile
  /\ pc' = [pc EXCEPT ![p] = "writing"]
  /\ UNCHANGED <<now, ticks, env, issued, pages, tokens, records, nextToken,
                 result, gv, sent, nTok, nReq>>
  /\ UNCHANGED otherVars

\* saveTokens(response), second half: the content is written at offset 0.
\* Onto an empty file that gives the content; onto what another process wrote
\* meanwhile it gives the content or, the lengths differing, a mix of both.
writeFileSync_write(p) ==
  /\ pc[p] = "writing"
  /\ tokenFile' \in (IF tokenFile = EmptyFile THEN {op[p].content}
                                              ELSE {op[p].content, GarbageFile})
  /\ pc' = [pc EXCEPT ![p] = "saved"]
  /\ UNCHANGED <<now, ticks, env, issued, pages, op, tokens, records, nextToken,
                 result, gv, sent, nTok, nReq>>
  /\ UNCHANGED otherVars

\* loadTokens() of an invocation that is not inside its own writeFileSync
load(p) ==
  /\ pc[p] \in {"idle", "saved"}
  /\ result' = [result EXCEPT ![p] = [kind |-> "loaded",
                                      value |-> loadTokens(tokenFile)]]
  /\ UNCHANGED <<now, ticks, tokenFile, env, issued, pages, pc, op, tokens,
                 records, nextToken, gv, sent, nTok, nReq>>
  /\ UNCHANGED otherVars

NextStore ==
  \E p \in Tasks :
    \/ writeFileSync_open(p)
    \/ writeFileSync_write(p)
    \/ load(p)

SpecStore == InitStore /\ [][NextStore]_vars

\* ================================================== auth/oauth.ts login
\* Interactive logins against TOKEN_FILE.  The pasted callback URL is either
\* not a URL or a URL with a query of up to MaxQuery key=value pairs.

MaxQuery == 2

OAuthStates == {"s1", "s2"}
QueryPairs ==
  [key : {"code"}, value : {"", "abc"}] \cup [key : {"state"}, value : OAuthStates]
CallbackUrls ==
  {[kind |-> "invalid"]} \cup
  { [kind |-> "url", query |-> q] :
      q \in UNION { [1..n -> QueryPairs] : n \in 0..MaxQuery } }
ExchangeStatuses == {200, 400, 401}

\* url.searchParams.get(name): the value of the first pair of that name, or null
searchParams_get(query, name) ==
  IF \E i \in 1..Len(query) : query[i].key = name
    THEN LET i == CHOOSE i \in 1..Len(query) :
                    /\ query[i].key = name
                    /\ \A j \in 1..(i - 1) : query[j].key # name
         IN Str(query[i].value)
    ELSE Null

\* getCredentials(): throws unless the three variables are set
getCredentials(environment) ==
  IF \/ ~environment.WHOOP_CLIENT_ID
     \/ ~environment.WHOOP_CLIENT_SECRET
     \/ ~environment.WHOOP_REDIRECT_URI
    THEN Throw(WhoopError(
           "Missing WHOOP_CLIENT_ID, WHOOP_CLIENT_SECRET, or WHOOP_REDIRECT_URI in environment",
           ExitCode.AUTH_ERROR, NoStatus))
    ELSE Return(Null)

InitLogin ==
  /\ now = 0
  /\ ticks = 0
  /\ tokenFile \in {EmptyFile, JSON_stringify(StoredCredential(3600))}
  /\ env \in [WHOOP_CLIENT_ID : BOOLEAN, WHOOP_CLIENT_SECRET : BOOLEAN,
               WHOOP_REDIRECT_URI : BOOLEAN]
  /\ issued = 0
  /\ pages = DefaultPages
  /\ pc = Idle("idle")
  /\ op = Idle(Null)
  /\ tokens = Idle(Null)
  /\ records = Idle(<<>>)
  /\ nextToken = Idle(Null)
  /\ result = Idle(Null)
  /\ gv = Idle(Null)
  /\ sent = Idle(Null)
  /\ nTok = Idle(0)
  /\ nReq = Idle(0)
  /\ NoCli
  /\ NoFormat

\* login() up to the prompt: getCredentials, the state, the browser opened
login_start(p) ==
  /\ pc[p] = "idle"
  /\ LET c == getCredentials(env)
     IN IF c.kind = "throw"
          THEN /\ pc' = [pc EXCEPT ![p] = "done"]
               /\ result' = [result EXCEPT ![p] = c.error]
               /\ op' = [op EXCEPT ![p] = [kind |-> "login", state |-> Null,
                                           callbackUrl |-> Null]]
          ELSE /\ \E state \in OAuthStates :
                    op' = [op EXCEPT ![p] = [kind |-> "login", state |-> Str(state),
                                             callbackUrl |-> Null]]
               /\ pc' = [pc EXCEPT ![p] = "prompt"]
               /\ UNCHANGED result
  /\ UNCHANGED <<now, ticks, tokenFile, env, issued, pages, tokens, records,
                 nextToken, gv, sent, nTok, nReq>>
  /\ UNCHANGED otherVars

\* Faulty variant: the returned state is not compared with the generated one
login_callback_noStateCheck(p) ==
  /\ pc[p] = "prompt"
  /\ \E callbackUrl \in CallbackUrls :
       /\ op' = [op EXCEPT ![p].callbackUrl = callbackUrl]
       /\ IF callbackUrl.kind = "invalid"
            THEN /\ pc' = [pc EXCEPT ![p] = "done"]
                 /\ result' = [result EXCEPT ![p] =
                       [kind |-> "TypeError", message |-> "Invalid URL"]]
                 /\ UNCHANGED nTok
            ELSE LET code == searchParams_get(callbackUrl.query, "code")
                 IN IF code = Null \/ code.chars = ""
                      THEN /\ pc' = [pc EXCEPT ![p] = "done"]
                           /\ result' = [result EXCEPT ![p] =
                                 WhoopError("No authorization code in callback URL",
                                            ExitCode.AUTH_ERROR, NoStatus)]
                           /\ UNCHANGED nTok
                      ELSE /\ pc' = [pc EXCEPT ![p] = "exchanging"]
                           /\ nTok' = [nTok EXCEPT ![p] = @ + 1]
                           /\ UNCHANGED result
  /\ UNCHANGED <<now, ticks, tokenFile, env, issued, pages, tokens, records,
                 nextToken, gv, sent, nReq>>
  /\ UNCHANGED otherVars

\* login() from the pasted callback URL to the token-exchange call:
\* new URL(callbackUrl), the code and state checks, fetch(WHOOP_TOKEN_URL)
login_callback(p) ==
  /\ pc[p] = "prompt"
  /\ \E callbackUrl \in CallbackUrls :
       /\ op' = [op EXCEPT ![p].callbackUrl = callbackUrl]
       /\ IF callbackUrl.kind = "invalid"
            THEN /\ pc' = [pc EXCEPT ![p] = "done"]
                 /\ result' = [result EXCEPT ![p] =
                       [kind |-> "TypeError", message |-> "Invalid URL"]]
                 /\ UNCHANGED nTok
            ELSE LET code == searchParams_get(callbackUrl.query, "code")
                     returnedState == searchParams_get(callbackUrl.query, "state")
                 IN IF code = Null \/ code.chars = ""
                      THEN /\ pc' = [pc EXCEPT ![p] = "done"]
                           /\ result' = [result EXCEPT ![p] =
                                 WhoopError("No authorization code in callback URL",
                                            ExitCode.AUTH_ERROR, NoStatus)]
                           /\ UNCHANGED nTok
                    ELSE IF returnedState # op[p].state
                      THEN /\ pc' = [pc EXCEPT ![p] = "done"]
                           /\ result' = [result EXCEPT ![p] =
                                 WhoopError("OAuth state mismatch",
                                            ExitCode.AUTH_ERROR, NoStatus)]
                           /\ UNCHANGED nTok
                      ELSE /\ pc' = [pc EXCEPT ![p] = "exchanging"]
                           /\ nTok' = [nTok EXCEPT ![p] = @ + 1]
                           /\ UNCHANGED result
  /\ UNCHANGED <<now, ticks, tokenFile, env, issued, pages, tokens, records,
                 nextToken, gv, sent, nReq>>
  /\ UNCHANGED otherVars

\* login() after the token-exchange call is answered: throw when
\* !tokenResponse.ok, else saveTokens(tokens)
login_exchanged(p) ==
  /\ pc[p] = "exchanging"
  /\ \E st \in ExchangeStatuses :
       IF ~response_ok(st)
         THEN /\ result' = [result EXCEPT ![p] =
                    WhoopError("Token exchange failed", ExitCode.AUTH_ERROR, st)]
              /\ UNCHANGED <<tokenFile, issued>>
         ELSE /\ \E data \in TokenResponses(issued + 1, issued + 1) :
                   tokenFile' = saveTokens(data, now)
              /\ issued' = issued + 1
              /\ result' = [result EXCEPT ![p] = [kind |-> "ok"]]
  /\ pc' = [pc EXCEPT ![p] = "done"]
  /\ UNCHANGED <<now, ticks, env, pages, op, tokens, records, nextToken, gv,
                 sent, nTok, nReq>>
  /\ UNCHANGED otherVars

NextLogin ==
  \E p \in Tasks :
    \/ login_start(p)
    \/ login_callback(p)
    \/ login_exchanged(p)

SpecLogin == InitLogin /\ [][NextLogin]_vars

\* ================================================== utils/analysis
\* analyzeTrends and generateInsights, after the design's sections on the
\* analytics engine: the direction of a metric over a window and the ordered
\* rule set of the insights.

\* the relative thresholds of the direction indicator, in percent
TrendThresholds == {5, 10}
MetricValues == {40, 41, 42, 43, 80}

RECURSIVE Sum(_)
Sum(values) == IF Len(values) = 0 THEN 0 ELSE Head(values) + Sum(Tail(values))

\* Faulty variant: the halves are taken the wrong way round
trendDirection_swapped(values, pct) ==
  LET n == Len(values)
      half == n \div 2
      earlier == Sum(SubSeq(values, n - half + 1, n))
      later == Sum(SubSeq(values, 1, half))
  IN IF n < 2 THEN "flat"
     ELSE IF later * 100 > earlier * (100 + pct) THEN "up"
     ELSE IF later * 100 < earlier * (100 - pct) THEN "down"
     ELSE "flat"

\* The direction indicator of a metric's scored observations in calendar
\* order: the mean of the later half against the mean of the earlier half
\* (the middle one of an odd count in neither), "up" / "down" when they differ
\* by more than pct percent of the earlier mean, else "flat"; "flat" with
\* fewer than two observations.  The halves have the same length, so the
\* sums compare as the means do.
trendDirection(values, pct) ==
  LET n == Len(values)
      half == n \div 2
      earlier == Sum(SubSeq(values, 1, half))
      later == Sum(SubSeq(values, n - half + 1, n))
  IN IF n < 2 THEN "flat"
     ELSE IF later * 100 > earlier * (100 + pct) THEN "up"
     ELSE IF later * 100 < earlier * (100 - pct) THEN "down"
     ELSE "flat"

Insight(category, severity) == [category |-> category, severity |-> severity]

\* the strain target of a recovery score's band
optimalStrain(score) == IF score >= 67 THEN 14 ELSE IF score >= 34 THEN 10 ELSE 6

\* The four rules on the most recent day of the recovery history (its last
\* record), each giving its insights or none
recoveryBand(history) ==
  IF Len(history) = 0 THEN <<>>
  ELSE LET score == history[Len(history)].recovery_score
       IN <<Insight("recovery", IF score >= 67 THEN "positive"
                                ELSE IF score >= 34 THEN "informational"
                                ELSE "warning")>>

\* today's HRV against the mean of the preceding days, 15 percent either way
hrvDeviation(history) ==
  IF Len(history) < 2 THEN <<>>
  ELSE LET n == Len(history) - 1
           today == history[Len(history)].hrv
           baseline == Sum([i \in 1..n |-> history[i].hrv])
       IN IF today * n * 100 > baseline * 115 THEN <<Insight("hrv", "positive")>>
          ELSE IF today * n * 100 < baseline * 85 THEN <<Insight("hrv", "warning")>>
          ELSE <<>>

\* the shortfall of sleep over the window, in minutes, against one hour
sleepDebt(debt) ==
  IF debt > 60 THEN <<Insight("sleep", "warning")>> ELSE <<>>

\* today's strain against the target of today's recovery band
strainCapacity(history, strain) ==
  IF Len(history) = 0 \/ strain = Null THEN <<>>
  ELSE IF strain.value > optimalStrain(history[Len(history)].recovery_score)
    THEN <<Insight("strain", "warning")>>
    ELSE <<Insight("strain", "informational")>>

SeverityRank(i) ==
  IF i.severity = "warning" THEN 1 ELSE IF i.severity = "informational" THEN 2 ELSE 3

\* Faulty variant: the insights are sorted by severity, warnings first
generateInsights_bySeverity(history, debt, strain) ==
  LET all == recoveryBand(history) \o hrvDeviation(history) \o sleepDebt(debt)
               \o strainCapacity(history, strain)
      IsWarning(i) == SeverityRank(i) = 1
      IsInformational(i) == SeverityRank(i) = 2
      IsPositive(i) == SeverityRank(i) = 3
  IN SelectSeq(all, IsWarning) \o SelectSeq(all, IsInformational)
       \o SelectSeq(all, IsPositive)

\* generateInsights: the rules' insights in the order of the rules
generateInsights(history, debt, strain) ==
  recoveryBand(history) \o hrvDeviation(history) \o sleepDebt(debt)
    \o strainCapacity(history, strain)

\* the inputs: a metric's series with a threshold, or the histories of a day
TrendInputs ==
  [kind : {"series"}, threshold : TrendThresholds,
   values : UNION { [1..n -> MetricValues] : n \in 0..MaxSeries }]

InsightInputs ==
  [kind : {"histories"},
   recovery : UNION { [1..n -> [recovery_score : {20, 50, 85}, hrv : {25, 32, 39}]] :
                        n \in 0..MaxHistory },
   debt : {30, 120},
   strain : {Null, [value |-> 5], [value |-> 16]}]

InitAnalysis ==
  /\ now = 0
  /\ ticks = 0
  /\ tokenFile = AbsentFile
  /\ env = [WHOOP_CLIENT_ID |-> TRUE, WHOOP_CLIENT_SECRET |-> TRUE]
  /\ issued = 0
  /\ pages = DefaultPages
  /\ pc = Idle("off")
  /\ op = Idle(Null)
  /\ tokens = Idle(Null)
  /\ records = Idle(<<>>)
  /\ nextToken = Idle(Null)
  /\ result = Idle(Null)
  /\ gv = Idle(Null)
  /\ sent = Idle(Null)
  /\ nTok = Idle(0)
  /\ nReq = Idle(0)
  /\ NoCli
  /\ whoopData \in TrendInputs \cup InsightInputs
  /\ rep = Null

\* the trends command after its fetches: analyzeTrends, for one metric
analyzeTrends ==
  /\ rep = Null
  /\ whoopData.kind = "series"
  /\ rep' = [kind |-> "trends",
             direction |-> trendDirection(whoopData.values, whoopData.threshold)]
  /\ UNCHANGED <<whoopData, clientVars, cliVars>>

\* the insights command after its fetches: generateInsights
insights ==
  /\ rep = Null
  /\ whoopData.kind = "histories"
  /\ rep' = [kind |-> "insights",
             insights |-> generateInsights(whoopData.recovery, whoopData.debt,
                                           whoopData.strain)]
  /\ UNCHANGED <<whoopData, clientVars, cliVars>>

NextAnalysis ==
  \/ analyzeTrends
  \/ insights

SpecAnalysis == InitAnalysis /\ [][NextAnalysis]_vars

\* ================================================================ claims
\* A step in which task p calls getValidTokens (gv[p].seq numbers the calls of
\* its operation): it starts a request from idle, or the next request of a
\* fetch-all loop from the page just received.
CallsGetValidTokens(p) ==
  /\ gv'[p] # Null
  /\ gv[p] = Null \/ gv'[p].seq # gv[p].seq

AuthRequired(e) ==
  /\ e.kind = "error"
  /\ e.code = ExitCode.AUTH_ERROR
  /\ e.message = "Not authenticated. Run: whoopskill auth login"

\* C1: every resource request in flight carries as bearer the access_token of a
\* credential that was not expired (now < expires_at - 60) when it was sent.
C1_BearerNotExpired ==
  \A p \in Tasks :
    sent[p] # Null =>
      /\ sent[p].bearer = sent[p].credential.access_token
      /\ sent[p].at < sent[p].credential.expires_at - 60

\* C2: a getValidTokens call that finds no credential in the store (file
\* absent, emptied, or unparsable) throws the authentication-required error in
\* that same step, sends no token-exchange call and no resource request, and
\* leaves the store as it was.
C2_NoCredentialFailsAtOnce ==
  [][\A p \in Tasks :
       (CallsGetValidTokens(p) /\ tokenFile.kind # "json") =>
          /\ pc'[p] = "done"
          /\ AuthRequired(result'[p])
          /\ nTok' = nTok
          /\ nReq' = nReq
          /\ sent'[p] = Null
          /\ issued' = issued
          /\ tokenFile' = tokenFile]_vars

\* C2 witness: a request failed on a store that a logout had emptied.
C2_Witness ==
  \E p, q \in Tasks :
    /\ op[q].kind = "logout"
    /\ tokenFile = EmptyFile
    /\ pc[p] = "done"
    /\ op[p].kind = "collection"
    /\ AuthRequired(result[p])
    /\ nTok[p] = 0
    /\ nReq[p] = 0

\* C3 as stated: for a stored credential with expires_at = now + d, the
\* getValidTokens call sends a token-exchange call if and only if d <= 60.
C3_CallIffExpired ==
  \A p \in Tasks :
    (gv[p] # Null /\ gv[p].loaded # Null) =>
      (gv[p].called <=> gv[p].loaded.expires_at - gv[p].at <= 60)

\* C3 amended: getValidTokens enters refreshAccessToken exactly when d <= 60,
\* and the token-exchange call is sent exactly when d <= 60 and both
\* WHOOP_CLIENT_ID and WHOOP_CLIENT_SECRET are set.
C3_RefreshIffExpired ==
  \A p \in Tasks :
    (gv[p] # Null /\ gv[p].loaded # Null) =>
      LET d == gv[p].loaded.expires_at - gv[p].at
      IN /\ (gv[p].outcome # "return") <=> d <= 60
         /\ gv[p].called <=> (d <= 60 /\ env.WHOOP_CLIENT_ID /\ env.WHOOP_CLIENT_SECRET)

\* C3 witness: one caller refreshed a credential with d = 60 or d = 30 while
\* another found the store's credential with d > 60 and did not.
C3_Witness ==
  \E p, q \in Tasks :
    /\ gv[p] # Null /\ gv[p].loaded # Null /\ gv[p].called
    /\ gv[p].loaded.expires_at - gv[p].at \in {30, 60}
    /\ gv[q] # Null /\ gv[q].loaded # Null /\ ~gv[q].called
    /\ gv[q].outcome = "return"
    /\ gv[q].loaded.expires_at - gv[q].at > 60

\* C4: a getValidTokens call that finds a stored credential with
\* now < expires_at - 60 returns exactly that credential (all five fields),
\* sends no token-exchange call and does not write the store.
C4_ValidReturnedUnchanged ==
  [][\A p \in Tasks :
       (/\ CallsGetValidTokens(p)
        /\ tokenFile.kind = "json"
        /\ now < tokenFile.data.expires_at - 60) =>
          /\ gv'[p].outcome = "return"
          /\ DOMAIN tokens'[p] = {"access_token", "refresh_token", "expires_at",
                                  "token_type", "scope"}
          /\ \A f \in DOMAIN tokens'[p] : tokens'[p][f] = tokenFile.data[f]
          /\ sent'[p].bearer = tokenFile.data.access_token
          /\ pc'[p] # "refreshing"
          /\ nTok' = nTok
          /\ issued' = issued
          /\ tokenFile' = tokenFile]_vars

\* C4 witness: a request is in flight with the stored, unexpired credential and
\* no token-exchange call was made for it.
C4_Witness ==
  \E p \in Tasks :
    /\ pc[p] = "awaiting"
    /\ gv[p].outcome = "return"
    /\ tokenFile.kind = "json"
    /\ tokens[p] = tokenFile.data
    /\ gv[p].at < tokenFile.data.expires_at - 60
    /\ nTok[p] = 0

\* C5: the step that handles a 2xx refresh response replaces the stored
\* credential as a whole by the response's pair: access_token, refresh_token,
\* token_type and scope are the response's, expires_at is the save time plus
\* expires_in, and getValidTokens returns the credential now stored.
C5_RefreshReplacesCredential ==
  [][\A p \in Tasks :
       (pc[p] = "refreshing" /\ pc'[p] = "awaiting") =>
          LET r == gv'[p].response
          IN /\ tokenFile'.kind = "json"
             /\ tokenFile'.data = [access_token |-> r.access_token,
                                   refresh_token |-> r.refresh_token,
                                   expires_at |-> now + r.expires_in,
                                   token_type |-> r.token_type,
                                   scope |-> r.scope]
             /\ tokens'[p] = tokenFile'.data
             /\ sent'[p].credential = tokenFile'.data]_vars

\* C5 witness: a refresh answered at now = 60 rotated the refresh token and the
\* store holds the response's pair, expiring expires_in after the save.
C5_Witness ==
  \E p \in Tasks :
    /\ gv[p] # Null
    /\ gv[p].outcome = "refreshed"
    /\ now = 60
    /\ gv[p].response.refresh_token # gv[p].loaded.refresh_token
    /\ gv[p].loaded.token_type # gv[p].response.token_type
    /\ tokenFile.kind = "json"
    /\ tokenFile.data.refresh_token = gv[p].response.refresh_token
    /\ tokenFile.data.expires_at = 60 + gv[p].response.expires_in
    /\ tokens[p] = tokenFile.data

\* C6: a refresh attempt that fails (the authorization server answers non-2xx,
\* or the client id or secret is missing) makes getValidTokens throw an error
\* with the authentication exit code, and no step of the attempt (sending the
\* call, handling the failure) changes the stored credential; with no other
\* caller running, the store then holds the credential loaded before the attempt.
C6_FailedRefreshKeepsStore ==
  [][\A p \in Tasks :
       /\ (CallsGetValidTokens(p) /\ pc'[p] = "refreshing") => tokenFile' = tokenFile
       /\ (\/ pc[p] = "refreshing" /\ pc'[p] = "done"
           \/ /\ CallsGetValidTokens(p)
              /\ tokenFile.kind = "json"
              /\ now >= tokenFile.data.expires_at - 60
              /\ ~(env.WHOOP_CLIENT_ID /\ env.WHOOP_CLIENT_SECRET)) =>
            /\ pc'[p] = "done"
            /\ result'[p].kind = "error"
            /\ result'[p].code = ExitCode.AUTH_ERROR
            /\ ~AuthRequired(result'[p])
            /\ tokenFile' = tokenFile
            /\ (\A q \in Tasks \ {p} : pc[q] = "off") =>
                  tokenFile' = JSON_stringify(gv'[p].loaded)]_vars

\* C6 witness: a token-exchange call was rejected and the store still holds the
\* credential the caller had loaded.
C6_Witness ==
  \E p \in Tasks :
    /\ pc[p] = "done"
    /\ op[p].kind \in {"collection", "revoke"}
    /\ result[p].kind = "error"
    /\ result[p].message = "Token refresh failed"
    /\ tokenFile.kind = "json"
    /\ tokenFile.data = gv[p].loaded

\* C7 as stated: callers that concurrently observe the same expired stored
\* credential never have two token-exchange calls in flight; one call is sent
\* and the others wait for it.
C7_OneTokenExchange ==
  \A p, q \in Tasks :
    (/\ p # q
     /\ pc[p] = "refreshing"
     /\ pc[q] = "refreshing"
     /\ gv[p].loaded = gv[q].loaded) => ~(gv[p].called /\ gv[q].called)

\* C8: the status query is one step that leaves the store as it was, sends no
\* token-exchange call and no resource request, and leaves nothing pending,
\* also when the stored credential is expired.
C8_StatusHasNoEffect ==
  [][\A p \in Tasks :
       (pc[p] = "idle" /\ op'[p].kind = "status") =>
          /\ tokenFile' = tokenFile
          /\ nTok' = nTok
          /\ nReq' = nReq
          /\ sent' = sent
          /\ issued' = issued
          /\ pc'[p] = "done"]_vars

\* C8 witness: a status query has run on an expired stored credential, which
\* is still in the store.
C8_Witness ==
  \E p \in Tasks :
    /\ pc[p] = "done"
    /\ op[p].kind = "status"
    /\ op[p].stored # Null
    /\ op[p].at >= op[p].stored.expires_at - 60
    /\ tokenFile = JSON_stringify(op[p].stored)
    /\ result[p].authenticated
    /\ nTok[p] = 0

\* The stored credential a status query saw was expired when it ran.
StatusSawExpired(p) == op[p].at >= op[p].stored.expires_at - 60

\* C9 as stated: the status query's result tells the expired case from the
\* non-expired case (two queries with the same result saw the same expiry
\* state), and it reports not authenticated exactly when no credential is stored.
C9_StatusTellsExpiry ==
  \A p, q \in Tasks :
    (/\ pc[p] = "done" /\ op[p].kind = "status"
     /\ pc[q] = "done" /\ op[q].kind = "status") =>
       /\ ~result[p].authenticated <=> op[p].stored = Null
       /\ (op[p].stored # Null /\ op[q].stored # Null /\ result[p] = result[q]) =>
             (StatusSawExpired(p) <=> StatusSawExpired(q))

RECURSIVE RecordsFrom(_, _)
\* The records of pages k, k+1, ... of endpoint e's collection, in server order
RecordsFrom(e, k) ==
  IF k > Len(pages) THEN <<>>
  ELSE [i \in 1..Len(pages[k]) |-> <<e, pages[k][i]>>] \o RecordsFrom(e, k + 1)

\* C10 as stated: a fetchCollection call with fetchAllPages = true that returns
\* has made exactly N requests and returns the records of all N pages.
C10_FetchAllReturnsAllPages ==
  \A p \in Tasks :
    (/\ pc[p] = "done" /\ op[p].kind = "collection" /\ op[p].all
     /\ result[p].kind = "collection") =>
       /\ result[p].records = RecordsFrom(op[p].endpoint, 1)
       /\ nReq[p] = Len(pages)

\* C10 amended: called without params.nextToken it makes N requests and returns
\* the records of pages 1..N in server order; called with the cursor of page k
\* it makes N - k + 1 requests and returns the records of pages k..N.
C10_FetchAllReturnsPagesFromCursor ==
  \A p \in Tasks :
    (/\ pc[p] = "done" /\ op[p].kind = "collection" /\ op[p].all
     /\ result[p].kind = "collection") =>
       LET k == IF op[p].nextToken = Null THEN 1 ELSE op[p].nextToken.page
       IN /\ result[p].records = RecordsFrom(op[p].endpoint, k)
          /\ result[p].nextToken = Null
          /\ nReq[p] = Len(pages) - k + 1

\* C10 witness: a fetch-all without initial cursor over two pages returned the
\* three records of both pages after two requests.
C10_Witness ==
  \E p \in Tasks :
    /\ pc[p] = "done" /\ op[p].kind = "collection" /\ op[p].all
    /\ op[p].nextToken = Null
    /\ result[p].kind = "collection"
    /\ pages = <<<<"a">>, <<"b", "a">>>>
    /\ result[p].records = <<<<op[p].endpoint, "a">>, <<op[p].endpoint, "b">>,
                             <<op[p].endpoint, "a">>>>
    /\ nReq[p] = 2

\* The error thrown for a non-2xx response to a resource request
ResponseFailure(e) ==
  /\ e.kind = "error"
  /\ e.message \in {"Authentication failed", "Rate limit exceeded", "API request failed"}

\* Task p runs (or, primed, starts) a fetch-all retrieval
FetchAll(o) == o # Null /\ o.kind = "collection" /\ o.all

\* The cursor a fetch-all that started at cursor c sends with its n-th request,
\* each page answering with the cursor of the next
RECURSIVE NthCursor(_, _, _)
NthCursor(e, c, n) ==
  IF n = 1 THEN c ELSE ServerPage(e, NthCursor(e, c, n - 1)).next_token

\* C11 as stated: the first request of a fetch-all retrieval carries no cursor.
C11_FirstRequestNoCursor ==
  \A p \in Tasks :
    (FetchAll(op[p]) /\ sent[p] # Null /\ nReq[p] = 1) => sent[p].nextToken = Null

\* C11 amended: the first request of a fetch-all retrieval carries the cursor
\* the call was given (none when it was given none); every later request carries
\* the cursor the preceding page returned; and a 2xx page ends the loop with the
\* records returned exactly when it carries no cursor, no request following it.
C11_CursorChain ==
  [][\A p \in Tasks :
       FetchAll(op'[p]) =>
         /\ nReq'[p] = nReq[p] + 1 =>
               /\ sent'[p].nextToken =
                     NthCursor(op'[p].endpoint, op'[p].nextToken, nReq'[p])
               /\ nReq[p] = 0 => sent'[p].nextToken = op'[p].nextToken
               /\ pc[p] = "awaiting" =>
                     sent'[p].nextToken =
                       ServerPage(sent[p].endpoint, sent[p].nextToken).next_token
         /\ (/\ pc[p] = "awaiting"
             /\ pc'[p] # "awaiting" \/ nReq'[p] # nReq[p]
             /\ ~(pc'[p] = "done" /\ ResponseFailure(result'[p]))) =>
               LET page == ServerPage(sent[p].endpoint, sent[p].nextToken)
               IN /\ (pc'[p] = "done" /\ result'[p].kind = "collection")
                        <=> page.next_token = Null
                  /\ page.next_token = Null => nReq'[p] = nReq[p]]_vars

\* C11 witness: a fetch-all given no cursor has its second request in flight,
\* carrying the cursor that the first page returned.
C11_Witness ==
  \E p \in Tasks :
    /\ FetchAll(op[p])
    /\ op[p].nextToken = Null
    /\ pc[p] = "awaiting"
    /\ nReq[p] = 2
    /\ sent[p].nextToken = Cursor(op[p].endpoint, 2)
    /\ records[p] = [i \in 1..Len(pages[1]) |-> <<op[p].endpoint, pages[1][i]>>]

\* ------------------------------------------------- claims on the CLI
\* The --limit value is an integer in [1, 25]
LimitInRange(limit) ==
  /\ test_digits(limit)
  /\ Number(limit) >= 1
  /\ Number(limit) <= 25

\* An error raised by the command line's own checks
ValidationError(e) ==
  /\ e # Null
  /\ e.kind = "error"
  /\ e.code = ExitCode.GENERAL_ERROR
  /\ e.status = NoStatus

\* C12 as stated: an invocation of the root command or a collection command
\* whose --limit is not an integer in [1, 25] makes no network call and, once
\* it has ended, has ended with a validation error, whatever its other options.
C12_BadLimitRejected ==
  ~LimitInRange(argv.limit) =>
     /\ netCalls = 0
     /\ cliPc = "exited" => ValidationError(exit)

\* C13: on the root command with --next-token, the call goes on to fetch only
\* with exactly one type flag, of a collection type, and then that type's
\* first request carries the cursor; with no type, several types, or profile /
\* body it makes no network call, starts no fetcher and ends with a
\* validation error.
C13_NextTokenOneCollection ==
  (argv.command = "root" /\ argv.nextToken # Null) =>
     IF Cardinality(argv.types) = 1 /\ argv.types \subseteq CollectionTypes
       THEN /\ ~(exit # Null /\ exit.kind = "error"
                 /\ exit.message = "--next-token can only be used with exactly one collection type: --sleep, --recovery, --workout, or --cycle")
            /\ cliPc = "fetching" =>
                 \A t \in argv.types : fetcherSt[t].first = argv.nextToken
       ELSE /\ netCalls = 0
            /\ \A t \in DataTypes : fetcherSt[t] = NoFetcher
            /\ cliPc # "start" => (cliPc = "exited" /\ ValidationError(exit))

\* C13 witness: the root command given --next-token with --profile and a valid
\* limit has ended with the next-token validation error, without network call.
C13_Witness ==
  /\ argv.command = "root"
  /\ argv.nextToken # Null
  /\ argv.types = {"profile"}
  /\ LimitInRange(argv.limit)
  /\ tokenFile.kind = "json"
  /\ cliPc = "exited"
  /\ ValidationError(exit)
  /\ exit.message = "--next-token can only be used with exactly one collection type: --sleep, --recovery, --workout, or --cycle"
  /\ netCalls = 0

\* C19: the step in which a fetcher of fetchData fails (a page request of a
\* fetch-all, the single request of any type, or getValidTokens) ends the
\* invocation with exactly that fetcher's error, which holds no records and no
\* output object; and what an invocation has ended with never changes.
C19_FailureEndsCall ==
  [][/\ \A t \in DataTypes :
          (fetcherSt[t].st # "rejected" /\ fetcherSt'[t].st = "rejected") =>
             /\ cliPc' = "exited"
             /\ exit' = fetcherSt'[t].error
             /\ exit'.kind = "error"
             /\ DOMAIN exit' = {"kind", "message", "code", "status"}
     /\ exit # Null => exit' = exit]_vars

\* C19 witness: of two fetch-all fetchers one has returned both pages into
\* output, the other failed on its second page after pushing the first; the
\* invocation ended with that error.
C19_Witness ==
  \E t, u \in CollectionTypes :
    /\ t # u
    /\ fetcherSt[t].st = "rejected"
    /\ fetcherSt[t].records # <<>>
    /\ fetcherSt[u].st = "fulfilled"
    /\ output[u] # Null
    /\ cliPc = "exited"
    /\ exit = fetcherSt[t].error
    /\ exit.code = ExitCode.RATE_LIMIT

\* The types an invocation of the root command or of a collection command
\* hands to fetchData, and whether it is answered by an id lookup instead
Requested ==
  IF argv.command = "root"
    THEN IF argv.types = {} THEN DataTypes ELSE argv.types
    ELSE {argv.command}

ByLookup == argv.id # Null \/ argv.cycleId # Null

\* The cursor the server returns for type t when the invocation fetches it
\* as a single page (none for a fetch-all, a lookup, profile and body)
PageCursor(t) ==
  IF t \in Requested \cap CollectionTypes /\ ~argv.all /\ ~ByLookup
    THEN ServerPage(t, argv.nextToken).next_token
    ELSE Null

\* C21: the printed combined output has a pagination entry for a type exactly
\* when that type was fetched as a single page and the page came with a
\* cursor, the entry being that cursor; the pagination field is absent when no
\* type came with a cursor, and always under --all.
C21_PaginationIffCursor ==
  (cliPc = "exited" /\ exit.kind = "output") =>
     /\ IF \A t \in DataTypes : PageCursor(t) = Null
          THEN exit.pagination = Null
          ELSE /\ exit.pagination # Null
               /\ \A t \in DataTypes : exit.pagination[t] = PageCursor(t)
     /\ argv.all => exit.pagination = Null

\* C21 witness: the root command with --sleep --profile, single page, has
\* printed an output whose pagination holds the sleep page's cursor and
\* nothing for profile.
C21_Witness ==
  /\ argv.command = "root"
  /\ argv.types = {"sleep", "profile"}
  /\ ~argv.all
  /\ cliPc = "exited"
  /\ exit.kind = "output"
  /\ exit.pagination # Null
  /\ exit.pagination["sleep"] = Cursor("sleep", 2)
  /\ exit.pagination["profile"] = Null

\* What fetchData's output holds for type t by the server's pages alone
ExpectedData(t) ==
  IF t \notin Requested THEN Null
  ELSE IF t \notin CollectionTypes THEN [kind |-> "object", type |-> t]
  ELSE [kind |-> "records",
        records |-> IF argv.all
                      THEN RecordsFrom(t, IF argv.nextToken = Null THEN 1
                                          ELSE argv.nextToken.page)
                      ELSE ServerPage(t, argv.nextToken).records]

C26_LimitWithinRange ==
  \A t \in CollectionTypes :
    fetcherSt[t].st = "pending" =>
      (fetcherSt[t].limit >= 1 /\ fetcherSt[t].limit <= 25)

\* C28: a cursor is sent only on a request of the query shape that produced
\* it: from one request of a fetch-all to the next the endpoint, start and
\* limit stay and the cursor sent is the one the previous page of this
\* endpoint returned; and the cursor a fetcher sends is a cursor of its own
\* type's endpoint.
C28_CursorKeepsQueryShape ==
  [][\A t \in CollectionTypes :
       /\ (fetcherSt[t].st = "pending" /\ fetcherSt'[t].st = "pending") =>
            /\ fetcherSt'[t].start = fetcherSt[t].start
            /\ fetcherSt'[t].limit = fetcherSt[t].limit
            /\ fetcherSt'[t].all = fetcherSt[t].all
            /\ fetcherSt'[t].nextToken # fetcherSt[t].nextToken =>
                 fetcherSt'[t].nextToken = ServerPage(t, fetcherSt[t].nextToken).next_token
       /\ (fetcherSt'[t].st = "pending" /\ fetcherSt'[t].nextToken # Null) =>
            fetcherSt'[t].nextToken.endpoint = t]_vars

\* C23: whatever the interleaving of a save with loads and with another
\* save, a load returns a complete credential: the one stored before, or one
\* that a save has written or is writing; never none, a part or a mix.
C23_LoadSeesCompleteCredential ==
  \A p \in Tasks :
    (result[p] # Null /\ result[p].kind = "loaded") =>
       result[p].value \in
         {StoredCredential(3600)} \cup
         {op[q].content.data : q \in {q \in Tasks : op[q] # Null}}

\* C27: the step in which a caller sends a token-exchange call sends it with
\* the refresh_token that the store holds at that moment, hence never with one
\* that a successful rotation has replaced in the store.
C27_RefreshCarriesStoredToken ==
  [][\A p \in Tasks :
       nTok'[p] # nTok[p] =>
          /\ pc'[p] = "refreshing"
          /\ tokens'[p] # Null
          /\ loadTokens(tokenFile') # Null
          /\ tokens'[p].refresh_token = loadTokens(tokenFile').refresh_token]_vars

\* C27 witness: after a rotation replaced the stored refresh_token, a caller
\* has its token-exchange call in flight and it carries the rotated token.
C27_Witness ==
  \E p \in Tasks :
    /\ pc[p] = "refreshing"
    /\ issued = 1
    /\ loadTokens(tokenFile) # Null
    /\ loadTokens(tokenFile).refresh_token = 1
    /\ tokens[p].refresh_token = 1

\* The pasted URL holds an authorization code / a state equal to the one
\* generated for this login
HasCode(o) ==
  /\ o.callbackUrl # Null
  /\ o.callbackUrl.kind = "url"
  /\ \E i \in 1..Len(o.callbackUrl.query) :
       o.callbackUrl.query[i].key = "code" /\ o.callbackUrl.query[i].value # ""

HasState(o) ==
  /\ o.callbackUrl # Null
  /\ o.callbackUrl.kind = "url"
  /\ \E i \in 1..Len(o.callbackUrl.query) :
       /\ o.callbackUrl.query[i].key = "state"
       /\ Str(o.callbackUrl.query[i].value) = o.state

\* C30: a login changes the token file only in the step that handles a 2xx
\* answer to its token-exchange call, made for a callback URL that held a code
\* and the generated state; a login sends its token-exchange call only for
\* such a URL; and the step in which a login fails sends no call and leaves
\* the file as it is.
C30_LoginWritesOnlyAfterChecks ==
  [][/\ tokenFile' # tokenFile =>
          \E p \in Tasks :
            /\ pc[p] = "exchanging" /\ pc'[p] = "done"
            /\ HasCode(op[p]) /\ HasState(op[p])
            /\ nTok[p] = 1
            /\ result'[p] = [kind |-> "ok"]
            /\ loadTokens(tokenFile') # Null
     /\ \A p \in Tasks :
          /\ nTok'[p] # nTok[p] => (HasCode(op'[p]) /\ HasState(op'[p]))
          /\ (pc[p] # "done" /\ pc'[p] = "done" /\ result'[p].kind # "ok") =>
               (tokenFile' = tokenFile /\ nTok' = nTok)
          /\ (pc[p] = "done" /\ ~(HasCode(op[p]) /\ HasState(op[p]))) =>
               (nTok'[p] = 0 /\ pc'[p] = "done")]_vars

\* C30 witness: a login whose callback URL held the code and the generated
\* state has had its token exchange answered 2xx and has replaced the stored
\* credential.
C30_Witness ==
  \E p \in Tasks :
    /\ pc[p] = "done"
    /\ result[p] = [kind |-> "ok"]
    /\ HasCode(op[p]) /\ HasState(op[p])
    /\ nTok[p] = 1
    /\ loadTokens(tokenFile) # Null
    /\ loadTokens(tokenFile) # StoredCredential(3600)

\* ------------------------------------------- claims on the formatters
\* The scored, non-nap records of the day's sleep collection
MainSleeps(d) ==
  { i \in 1..Len(d.sleep.items) : LET r == d.sleep.items[i]
      IN r.score_state = "SCORED" /\ r.score # Null /\ ~r.nap }

\* The scored records of a collection, naps included
ScoredAt(items) ==
  { i \in 1..Len(items) : items[i].score_state = "SCORED" /\ items[i].score # Null }

\* C14: when the day's sleep collection holds exactly one record that is
\* scored and not a nap, getSleep returns that record, at whatever place it
\* stands and whatever the other records are.
C14_SingleMainSleepPicked ==
  (rep # Null /\ whoopData.sleep # Null /\ Cardinality(MainSleeps(whoopData)) = 1) =>
     \A i \in MainSleeps(whoopData) : rep.sleep = whoopData.sleep.items[i]

\* C14 witness: the one scored non-nap record stands last, after a scored nap
\* and an unscored record, and it is the one picked.
C14_Witness ==
  /\ rep # Null
  /\ whoopData.sleep # Null
  /\ Len(whoopData.sleep.items) = 3
  /\ MainSleeps(whoopData) = {3}
  /\ whoopData.sleep.items[1].nap
  /\ 1 \in ScoredAt(whoopData.sleep.items)
  /\ 2 \notin ScoredAt(whoopData.sleep.items)
  /\ rep.sleep.id = 3

\* C15 as stated: when no sleep record is both scored and not a nap but some
\* record is scored, the record picked is the first scored one in server order.
C15_FirstScoredPicked ==
  (/\ rep # Null
   /\ whoopData.sleep # Null
   /\ MainSleeps(whoopData) = {}
   /\ ScoredAt(whoopData.sleep.items) # {}) =>
     /\ rep.sleep # Null
     /\ rep.sleep.id \in ScoredAt(whoopData.sleep.items)
     /\ \A j \in ScoredAt(whoopData.sleep.items) : rep.sleep.id <= j

\* C16: on a non-empty collection with no scored record each getter returns
\* the first record in server order and the summary shows its score_state; on
\* an empty or absent collection each returns none and the summary has no part
\* for it.  (The getters are total: every input gives a value.)
C16_UnscoredGivesFirst ==
  rep # Null =>
    \A k \in {"sleep", "recovery", "cycle"} :
      LET coll == whoopData[k]
          label == IF k = "sleep" THEN "Sleep"
                   ELSE IF k = "recovery" THEN "Recovery"
                   ELSE IF rep.kind = "pretty" THEN "Cycle" ELSE "Strain"
      IN /\ (coll = Null \/ (coll # Null /\ Len(coll.items) = 0)) =>
               /\ rep[k] = Null
               /\ \A i \in 1..Len(rep.parts) : rep.parts[i].label # label
         /\ (coll # Null /\ Len(coll.items) > 0 /\ ScoredAt(coll.items) = {}) =>
               /\ rep[k] = coll.items[1]
               /\ \E i \in 1..Len(rep.parts) :
                    rep.parts[i] = Part(label, "state", coll.items[1].score_state)

\* C16 witness: a cycle collection of three unscored records, the first one
\* picked and shown by its state.
C16_Witness ==
  /\ rep # Null
  /\ whoopData.cycle # Null
  /\ Len(whoopData.cycle.items) = 3
  /\ ScoredAt(whoopData.cycle.items) = {}
  /\ whoopData.cycle.items[1].score_state = "PENDING_SCORE"
  /\ rep.cycle.id = 1
  /\ rep.parts = <<Part("Strain", "state", "PENDING_SCORE")>>

\* The labels under which a formatter prints a collection's representative
\* record, the label of its state tag, and the parts printed under some labels
LabelsOf(k) ==
  IF k = "recovery" THEN {"Recovery", "HRV", "RHR"}
  ELSE IF k = "sleep" THEN {"Sleep", "h", "Efficiency", "REM", "Deep"}
  ELSE {"Strain", "Day strain", "Cycle", "cal", "Avg HR", "optimal"}

StateLabel(k) ==
  IF k = "recovery" THEN "Recovery"
  ELSE IF k = "sleep" THEN "Sleep"
  ELSE IF rep.kind = "pretty" THEN "Cycle" ELSE "Strain"

PartsOf(labels) ==
  LET Labelled(part) == part.label \in labels
  IN SelectSeq(rep.parts, Labelled)

Workouts == IF whoopData.workout = Null THEN <<>> ELSE whoopData.workout.items

\* C29 as stated: in each of the three formatters a representative recovery,
\* sleep or cycle record without a score payload, and any workout without
\* one, is printed as its state tag and enters no number printed.
C29_UnscoredOnlyStateTag ==
  rep # Null =>
    /\ \A k \in {"recovery", "sleep", "cycle"} :
         (rep[k] # Null /\ rep[k].score = Null) =>
            PartsOf(LabelsOf(k)) = <<Part(StateLabel(k), "state", rep[k].score_state)>>
    /\ \A i \in 1..Len(Workouts) :
         Workouts[i].score = Null =>
            /\ \E j \in 1..Len(rep.parts) :
                 /\ rep.parts[j].kind = "state"
                 /\ rep.parts[j] = Part("Workout", "state", Workouts[i].score_state)
            /\ \A j \in 1..Len(rep.parts) : rep.parts[j].kind # "count"

\* C29 as amended: a representative recovery, sleep or cycle record without a
\* score payload is printed as its state tag alone by all three formatters
\* (and leaves the strain target of formatSummaryColor at that of no recovery
\* score, 10); formatPretty prints each workout without a payload as its state
\* tag and each with one as its numbers, in order; formatSummary and
\* formatSummaryColor print of the workouts their number only, unscored ones
\* counted too.
C29_UnscoredNeverScored ==
  rep # Null =>
    /\ \A k \in {"recovery", "sleep", "cycle"} :
         (rep[k] # Null /\ rep[k].score = Null) =>
            PartsOf(LabelsOf(k)) = <<Part(StateLabel(k), "state", rep[k].score_state)>>
    /\ (rep.kind = "summaryColor" /\ rep.recovery # Null /\ rep.recovery.score = Null) =>
         \A j \in 1..Len(rep.parts) :
            rep.parts[j].kind = "target" => rep.parts[j] = Part("optimal", "target", 10)
    /\ LET wp == PartsOf({"Workout", "Workouts"})
       IN IF rep.kind = "pretty"
            THEN /\ Len(wp) = Len(Workouts)
                 /\ \A i \in 1..Len(Workouts) :
                      IF Workouts[i].score = Null
                        THEN /\ wp[i].kind = "state"
                             /\ wp[i] = Part("Workout", "state", Workouts[i].score_state)
                        ELSE /\ wp[i].kind = "score"
                             /\ wp[i] = Part("Workout", "score", Workouts[i].score.value)
            ELSE wp = IF Len(Workouts) > 0
                        THEN <<Part("Workouts", "count", Len(Workouts))>>
                        ELSE <<>>

\* C29 witness: formatPretty has printed a day whose recovery record is
\* unscored, whose cycle is scored and whose two workouts are an unscored one
\* followed by a scored one.
C29_Witness ==
  /\ rep # Null
  /\ rep.kind = "pretty"
  /\ rep.recovery # Null
  /\ rep.recovery.score = Null
  /\ rep.cycle # Null
  /\ rep.cycle.score # Null
  /\ Len(Workouts) = 2
  /\ Workouts[1].score = Null
  /\ Workouts[2].score # Null
  /\ PartsOf({"Workout"}) = <<Part("Workout", "state", Workouts[1].score_state),
                              Part("Workout", "score", 50)>>

\* A series strictly increasing, strictly decreasing, constant
Increasing(v) == \A i \in 1..(Len(v) - 1) : v[i] < v[i + 1]
Decreasing(v) == \A i \in 1..(Len(v) - 1) : v[i] > v[i + 1]
Constant(v) == \A i \in 1..(Len(v) - 1) : v[i] = v[i + 1]

\* the sum of the values at places lo..hi
RECURSIVE SumAt(_, _, _)
SumAt(v, lo, hi) == IF lo > hi THEN 0 ELSE v[lo] + SumAt(v, lo + 1, hi)

\* the later half's mean is above the earlier half's by more than the threshold
RisesBeyond(v, pct) ==
  LET h == Len(v) \div 2
  IN SumAt(v, Len(v) - h + 1, Len(v)) * 100 > SumAt(v, 1, h) * (100 + pct)

FallsBeyond(v, pct) ==
  LET h == Len(v) \div 2
  IN SumAt(v, Len(v) - h + 1, Len(v)) * 100 < SumAt(v, 1, h) * (100 - pct)

\* C24 as stated: the direction of a strictly increasing series of at least
\* four points is "up", of a strictly decreasing one "down", of a constant
\* one "flat".
C24_MonotoneGivesDirection ==
  (rep # Null /\ rep.kind = "trends" /\ Len(whoopData.values) >= 4) =>
     /\ Increasing(whoopData.values) => rep.direction = "up"
     /\ Decreasing(whoopData.values) => rep.direction = "down"
     /\ Constant(whoopData.values) => rep.direction = "flat"

\* C24 as amended: a strictly increasing series of at least four points is
\* "up" when its later half's mean exceeds the earlier half's by more than
\* the threshold and "flat" otherwise, never "down"; a strictly decreasing one
\* is "down" when it falls by more than the threshold and "flat" otherwise,
\* never "up"; a constant one is "flat".
C24_MonotoneBeyondThreshold ==
  (rep # Null /\ rep.kind = "trends" /\ Len(whoopData.values) >= 4) =>
     /\ Increasing(whoopData.values) =>
          rep.direction = IF RisesBeyond(whoopData.values, whoopData.threshold)
                            THEN "up" ELSE "flat"
     /\ Decreasing(whoopData.values) =>
          rep.direction = IF FallsBeyond(whoopData.values, whoopData.threshold)
                            THEN "down" ELSE "flat"
     /\ Constant(whoopData.values) => rep.direction = "flat"

\* C24 witness: a strictly increasing series of five points whose halves
\* differ by more than the threshold has been classified "up".
C24_Witness ==
  /\ rep # Null
  /\ rep.kind = "trends"
  /\ whoopData.values = <<40, 41, 42, 43, 80>>
  /\ whoopData.threshold = 10
  /\ rep.direction = "up"

\* the place of a category in the order of the rules
RuleRank(category) ==
  IF category = "recovery" THEN 1 ELSE IF category = "hrv" THEN 2
  ELSE IF category = "sleep" THEN 3 ELSE 4

\* today's recovery is 85 and today's HRV 39 against a baseline of 32
ExampleDay(h) ==
  /\ Len(h) >= 2
  /\ h[Len(h)] = [recovery_score |-> 85, hrv |-> 39]
  /\ \A i \in 1..(Len(h) - 1) : h[i].hrv = 32

\* C25: the insights come in the order of the rules (recovery band, HRV
\* deviation, sleep debt, strain capacity), each rule at most once, whatever
\* their severities; with recovery 85 and HRV 39 against a baseline of 32 the
\* first is the positive recovery insight and the second the positive HRV one.
C25_InsightsInRuleOrder ==
  (rep # Null /\ rep.kind = "insights") =>
     /\ \A i \in 1..(Len(rep.insights) - 1) :
          RuleRank(rep.insights[i].category) < RuleRank(rep.insights[i + 1].category)
     /\ ExampleDay(whoopData.recovery) =>
          /\ Len(rep.insights) >= 2
          /\ rep.insights[1] = Insight("recovery", "positive")
          /\ rep.insights[2] = Insight("hrv", "positive")

\* C25 witness: on the example day with a sleep debt and a strain above the
\* target the two positive insights come first, the two warnings after them.
C25_Witness ==
  /\ rep # Null
  /\ rep.kind = "insights"
  /\ ExampleDay(whoopData.recovery)
  /\ rep.insights = <<Insight("recovery", "positive"), Insight("hrv", "positive"),
                      Insight("sleep", "warning"), Insight("strain", "warning")>>

\* C17: the error thrown for a response to a resource request has a status
\* that is not 2xx, and its kind follows from the status alone: 401 gives the
\* authentication error (exit code 2), 429 the rate-limit error (exit code 3),
\* any other status the request-failed error (exit code 1), each carrying the
\* status.
C17_StatusToErrorKind ==
  \A p \in Tasks :
    (/\ pc[p] = "done"
     /\ op[p].kind \in {"collection", "revoke"}
     /\ ResponseFailure(result[p])) =>
       LET e == result[p]
       IN /\ e.status \in ResponseStatuses
          /\ ~(e.status >= 200 /\ e.status < 300)
          /\ e = IF e.status = 401
                   THEN [kind |-> "error", message |-> "Authentication failed",
                         code |-> 2, status |-> 401]
                 ELSE IF e.status = 429
                   THEN [kind |-> "error", message |-> "Rate limit exceeded",
                         code |-> 3, status |-> 429]
                 ELSE [kind |-> "error", message |-> "API request failed",
                       code |-> 1, status |-> e.status]

\* C17 witness: a collection request answered 429 ended as the rate-limit
\* error and a revocation answered 404 as the request-failed error with 404.
C17_Witness ==
  \E p, q \in Tasks :
    /\ pc[p] = "done" /\ op[p].kind = "collection"
    /\ result[p].kind = "error" /\ result[p].status = 429 /\ result[p].code = 3
    /\ pc[q] = "done" /\ op[q].kind = "revoke"
    /\ result[q].kind = "error" /\ result[q].status = 404 /\ result[q].code = 1

\* C18: the step that handles a non-2xx response to a request of task p ends
\* p's operation with the error: no request and no token-exchange call is sent
\* in it, nothing of p stays pending, and the stored credential is unchanged;
\* and an ended operation sends nothing more.
C18_FailsFast ==
  [][\A p \in Tasks :
       /\ (pc[p] = "awaiting" /\ pc'[p] # "awaiting" /\ result'[p] # Null
           /\ ResponseFailure(result'[p])) =>
             /\ pc'[p] = "done"
             /\ nReq' = nReq
             /\ nTok' = nTok
             /\ issued' = issued
             /\ sent'[p] = Null
             /\ tokenFile' = tokenFile
       /\ (pc[p] = "awaiting" /\ pc'[p] = "refreshing") =>
             (nReq'[p] = nReq[p] /\ FetchAll(op[p]) /\ gv'[p].seq > 1)
       /\ pc[p] = "done" =>
             /\ pc'[p] = "done"
             /\ nReq'[p] = nReq[p]
             /\ nTok'[p] = nTok[p]
             /\ result'[p] = result[p]]_vars

\* C18 witness: the second page request of a fetch-all was answered 429; the
\* operation ended after two requests, without token-exchange call, the stored
\* credential still the unexpired one.
C18_Witness ==
  \E p \in Tasks :
    /\ pc[p] = "done"
    /\ FetchAll(op[p])
    /\ result[p].kind = "error"
    /\ result[p].code = ExitCode.RATE_LIMIT
    /\ nReq[p] = 2
    /\ nTok[p] = 0
    /\ tokenFile.kind = "json"
    /\ now < tokenFile.data.expires_at - 60

\* A logout, or a revocation answered 2xx, has run
Cleared ==
  \E q \in Tasks :
    /\ pc[q] = "done"
    /\ \/ op[q].kind = "logout"
       \/ op[q].kind = "revoke" /\ result[q].kind = "revoked"

\* C20 as stated: the stored credential is cleared (the file kept, its content
\* emptied) by exactly the logout step and the step of a revocation answered
\* 2xx; a revocation that fails leaves the store as it was; and once either
\* has run, every getValidTokens call fails with the authentication-required
\* error (no login follows in these behaviours).
C20_ClearedStaysCleared ==
  [][/\ (tokenFile.kind = "json" /\ tokenFile'.kind # "json") =>
          /\ tokenFile' = EmptyFile
          /\ \E q \in Tasks :
               /\ pc[q] # "done" /\ pc'[q] = "done"
               /\ \/ op'[q].kind = "logout"
                  \/ op'[q].kind = "revoke" /\ result'[q].kind = "revoked"
     /\ \A q \in Tasks :
          (/\ pc[q] # "done" /\ pc'[q] = "done"
           /\ \/ op'[q].kind = "logout"
              \/ op'[q].kind = "revoke" /\ result'[q].kind = "revoked") =>
             /\ tokenFile' = clearTokens(tokenFile)
             /\ existsSync(tokenFile) <=> existsSync(tokenFile')
             /\ loadTokens(tokenFile') = Null
     /\ \A q \in Tasks :
          (/\ pc[q] # "done" /\ pc'[q] = "done"
           /\ op'[q].kind = "revoke" /\ result'[q].kind = "error") =>
             tokenFile' = tokenFile
     /\ \A p \in Tasks :
          (Cleared /\ CallsGetValidTokens(p)) =>
             (pc'[p] = "done" /\ AuthRequired(result'[p]))]_vars

====
